---- MODULE Spec2Model ----
(***************************************************************************)
(* The chatgpt external plugin of prow: the dispatch of one webhook        *)
(* delivery (server.go), the hot-reloaded task configuration (the          *)
(* ConfigAgent of the plugin and the TaskAgent of config_tasks.go) and the *)
(* skip rules of a task.                                                   *)
(*                                                                         *)
(* Texts are sequences of lines (strings.Join(lines, "\n") is the          *)
(* sequence itself); a byte payload is the record of what the code reads   *)
(* of it (its first byte and its length) and a tag that tells payloads     *)
(* apart.                                                                  *)
(***************************************************************************)
EXTENDS Integers, Sequences, FiniteSets, TLC

VARIABLES
    ev,              \* the webhook delivery being handled
    pc,              \* position of the dispatch goroutine
    err,             \* the error the handler returned ("" is nil)
    pr,              \* the pull request handle works on
    foreword,        \* handle's foreword argument
    viaComment,      \* handle's comment argument is non-nil
    lastResp,        \* the latest answer of ghc.GetPullRequestDiff
    fetchCalls,      \* number of ghc.GetPullRequestDiff calls
    diff,            \* the artifact getPullRequestDiff returned
    tasks,           \* the task map getTasks returned
    todo,            \* names the range loop has not visited yet
    cur,             \* the task taskRun is working on
    resp,            \* the text of the createComment call in progress
    after,           \* the caller of the createComment call in progress
    completionCalls, \* log of openaiClient.CreateChatCompletion calls
    commentCalls,    \* log of ghc.CreateComment calls
    file,            \* what the task file holds
    modTime,         \* the modification time of the task file
    config,          \* the config field of the agent
    mu,              \* the mu field of the agent, a sync.RWMutex
    lastMod,         \* WatchConfig's lastMod
    wpc,             \* position of the WatchConfig goroutine
    parsed,          \* the tree the Reload in progress unmarshalled
    saved,           \* the tree the agent held when the Reload in progress began
    cpTodo,          \* tasks the range loops of TaskAgent.Reload have not visited
    cpErr,           \* an initRegexps call of the Reload in progress failed
    rlErr,           \* what the latest Reload returned ("" is nil)
    expected,        \* the tree of the latest load of a readable, well-formed file
    rpc,             \* position of each TasksFor caller
    rres,            \* what TasksFor returned to each caller
    rseen,           \* the trees the agent held during each caller's call
    seenMod,         \* the latest modification time any tick of WatchConfig observed
    lastTick,        \* what the latest tick of WatchConfig observed and did
    failed,          \* the kinds of failure the ticks of WatchConfig have met
    skTask,          \* a Task as loaded from a document
    skPr,            \* the pull request the task is tried on
    skPc,            \* "loaded", then "compiled", then "ran"
    skErr,           \* initRegexps returned an error
    skRun,           \* what shouldRunTaskForPR returned
    spText,          \* the messageText of a splitUserMessage call
    spLen,           \* its splitLen
    spOut,           \* what the call returned
    spPc,            \* "called", then "returned" or "panicked"
    prevOrder,       \* task names in the order an earlier dispatch of ev commented
    delivered,       \* the event of each delivery of a connection, in arrival order
    accepted,        \* github.ValidateWebhook accepts the delivery
    upstream,        \* the answers the upstream has for the fetch calls of each delivery
    srvPc,           \* position of the ServeHTTP call of each delivery
    acked,           \* the acknowledgement of the delivery was written
    jobPc,           \* position of the goroutine handleEvent started for it
    jobTodo,         \* names the range loop of that goroutine has not visited yet
    coAuthors,       \* the commitAuthors of a NormalizeCoAuthorBy call
    coLogin,         \* its prAuthorLogin
    coOut,           \* what the call returned
    coPc             \* "called", then "returned"

dispatchVars == <<ev, pc, err, pr, foreword, viaComment, lastResp, fetchCalls,
                  diff, tasks, todo, cur, resp, after, completionCalls,
                  commentCalls>>
watchVars == <<seenMod, lastTick, failed>>
agentVars == <<file, modTime, config, mu, lastMod, wpc, parsed, saved, cpTodo,
               cpErr, rlErr, expected, rpc, rres, rseen, watchVars>>
skipVars == <<skTask, skPr, skPc, skErr, skRun>>

splitVars == <<spText, spLen, spOut, spPc>>
redeliveryVars == <<prevOrder>>
serveVars == <<delivered, accepted, upstream, srvPc, acked, jobPc, jobTodo>>
coVars == <<coAuthors, coLogin, coOut, coPc>>
libVars == <<splitVars, redeliveryVars, serveVars, coVars>>

vars == <<dispatchVars, agentVars, skipVars, libVars>>

----------------------------------------------------------------------------
\* Bounds of the model.

\* ghc.GetPullRequestDiff calls enumerated for one dispatch.
MaxFetchCalls == 3

----------------------------------------------------------------------------
\* Constants of the program.

openaiMessageMaxLen == 9000
defaultIssueReviewWorld == "default"
defaultSystemMessage ==
    "You are an experienced software developer. You will act as a reviewer for a GitHub Pull Request, and you should answer by markdown format."
defaultPromte ==
    "Please help me to review the github pull request: summarize the key changes and identify potential problems, then give some fixing suggestions, all you output should be markdown."
defaultPrPatchIntroducePromte == "This is the diff for the pull request:"

SkipTooLargeNotice == "I Skip it since changed size is too large"
SkipNotMergableNotice == "I Skip the comment since it is not mergable."
SendFailedNotice == "Sorry, failed to send message to OpenAI server!"

\* The repository of the delivery, and the pull request in it.
Org == "o"
Repo == "r"
PrTitle == "title"
PrBody == "body"
\* The numbers a pull request of the repository can have.
PrNumbers == {7, 8}
PrAuthor == "u1"
PrBase == <<"m">>
PrLabels == { <<"r", "1">> }

Nil == [nil |-> TRUE]

----------------------------------------------------------------------------
\* The task file.

\* One task entry of the document, with the keys of struct Task.
DocTaskWith(prompt, always, note, authors, branches, labels) ==
    [system_message |-> "sys", user_prompt |-> prompt,
     patch_introduce_prompt |-> "intro", output_static_head_note |-> note,
     always_run |-> always, skip_authors |-> authors,
     skip_branche_regs |-> branches, skip_label_regs |-> labels]

DocTask(prompt, always, note) == DocTaskWith(prompt, always, note, {}, <<>>, <<>>)

\* fmt.Sprintf("%s/%s", org, repo) and the bare keys of the document.
FullName(org, repo) == <<org, "/", repo>>
BareName(name) == <<name>>

\* A function as the set of its pairs, and back.
Merge(f, g) ==
    [k \in DOMAIN f \cup DOMAIN g |-> IF k \in DOMAIN f THEN f[k] ELSE g[k]]
Empty == [k \in {} |-> Nil]
Single(k, v) == [x \in {k} |-> v]

\* A pattern string of a skip rule.
Pattern(kind, lit) == [kind |-> kind, lit |-> lit]

\* Skip rules that name the author, the base branch or a label of the pull
\* request of the deliveries.
SkipRuleSets ==
    { <<{PrAuthor}, <<>>, <<>>>>,
      <<{}, <<Pattern("exact", PrBase)>>, <<>>>>,
      <<{}, <<>>, <<Pattern("prefix", <<"r">>)>>>> }

RepoTaskSets ==
    { Empty }
    \cup { [n \in {"t1", "t2"} |->
               IF n = "t1" THEN DocTaskWith("p1", TRUE, "", rs[1], rs[2], rs[3])
               ELSE DocTask("p2", TRUE, "note")]
           : rs \in SkipRuleSets }
    \cup { [n \in {"t1"} |-> DocTask("p1", a, "")] : a \in BOOLEAN }
    \cup { [n \in {"t1", "t2"} |->
               IF n = "t1" THEN DocTask("p1", a, "") ELSE DocTask("p2", b, "note")]
           : a \in BOOLEAN, b \in BOOLEAN }

OrgTaskSet == [n \in {"t3"} |-> DocTask("p3", TRUE, "")]
RepoNameTaskSet == [n \in {"t4"} |-> DocTask("p4", TRUE, "note")]

\* The well-formed documents the dispatch is run under.
Docs ==
    { Merge(r, Merge(o, n)) :
        r \in {Empty} \cup { Single(FullName(Org, Repo), ts) : ts \in RepoTaskSets },
        o \in {Empty, Single(BareName(Org), OrgTaskSet)},
        n \in {Empty, Single(BareName(Repo), RepoNameTaskSet)} }

\* json.Unmarshal of one entry into a TaskConfig: the keys TaskConfig does not
\* declare are dropped.
UnmarshalTaskConfig(t) ==
    [Name |-> "", SystemMessage |-> t.system_message, UserPrompt |-> t.user_prompt,
     PatchIntroducePrompt |-> t.patch_introduce_prompt,
     OutputStaticHeadNote |-> t.output_static_head_note]

\* json.Unmarshal(data, &config) of a well-formed document into a Config.
UnmarshalConfig(doc) ==
    [k \in DOMAIN doc |-> [n \in DOMAIN doc[k] |-> UnmarshalTaskConfig(doc[k][n])]]

EmptyTaskConfig ==
    [Name |-> "", SystemMessage |-> "", UserPrompt |-> "",
     PatchIntroducePrompt |-> "", OutputStaticHeadNote |-> ""]

\* ConfigAgent.TasksFor: the repository entry, else the entry under the
\* repository's name, else a single empty task named "default".
ConfigAgentTasksFor(cfg, org, repo) ==
    IF FullName(org, repo) \in DOMAIN cfg THEN cfg[FullName(org, repo)]
    ELSE IF BareName(repo) \in DOMAIN cfg THEN cfg[BareName(repo)]
    ELSE Single("default", EmptyTaskConfig)

----------------------------------------------------------------------------
\* Regular expressions. A pattern string is the record of its syntax: the
\* literal it holds and how it is anchored ("exact" is ^lit$, "prefix" is
\* ^lit.*$, "contains" is lit); "invalid" does not compile. Names are
\* sequences of characters.

\* regexp.Compile
Compile(p) ==
    IF p.kind = "invalid" THEN [err |-> TRUE]
    ELSE [err |-> FALSE, re |-> [prog |-> p.kind, lit |-> p.lit]]

IsPrefix(l, s) == Len(l) <= Len(s) /\ SubSeq(s, 1, Len(l)) = l
Contains(l, s) ==
    \E i \in 1..(Len(s) - Len(l) + 1) : SubSeq(s, i, i + Len(l) - 1) = l

\* (*Regexp).MatchString
MatchString(re, s) ==
    CASE re.prog = "exact" -> s = re.lit
      [] re.prog = "prefix" -> IsPrefix(re.lit, s)
      [] OTHER -> Contains(re.lit, s)

----------------------------------------------------------------------------
\* struct Task and its skip rules.

\* json.Unmarshal of one entry into a Task: the compiled lists are not part
\* of the document and start empty.
UnmarshalTask(t) ==
    [SystemMessage |-> t.system_message, UserPrompt |-> t.user_prompt,
     PatchIntroducePrompt |-> t.patch_introduce_prompt,
     OutputStaticHeadNote |-> t.output_static_head_note,
     AlwaysRun |-> t.always_run, SkipAuthors |-> t.skip_authors,
     SkipBrancheRegs |-> t.skip_branche_regs, SkipLabelRegs |-> t.skip_label_regs,
     skipBrancheRegs |-> <<>>, skipLabelRegs |-> <<>>]

\* One loop of initRegexps: the patterns are compiled in order and appended to
\* the compiled list; the first that does not compile ends the loop with an
\* error, after the ones before it were appended.
CompileInto(compiled, raw) ==
    LET R[i \in 0..Len(raw)] ==
            IF i = 0 THEN [err |-> FALSE, regs |-> compiled]
            ELSE IF R[i - 1].err THEN R[i - 1]
            ELSE IF Compile(raw[i]).err THEN [err |-> TRUE, regs |-> R[i - 1].regs]
            ELSE [err |-> FALSE, regs |-> Append(R[i - 1].regs, Compile(raw[i]).re)]
    IN  R[Len(raw)]

initRegexpsBranchesTwice(t) ==
    LET b == CompileInto(t.skipBrancheRegs, t.SkipBrancheRegs)
        l == CompileInto(t.skipLabelRegs, t.SkipBrancheRegs)
    IN  IF b.err
        THEN [err |-> TRUE, task |-> [t EXCEPT !.skipBrancheRegs = b.regs]]
        ELSE [err |-> l.err,
              task |-> [t EXCEPT !.skipBrancheRegs = b.regs, !.skipLabelRegs = l.regs]]

\* Task.initRegexps: the task with its compiled lists extended, and whether
\* an error was returned.
initRegexps(t) ==
    LET b == CompileInto(t.skipBrancheRegs, t.SkipBrancheRegs)
        l == CompileInto(t.skipLabelRegs, t.SkipLabelRegs)
    IN  IF b.err
        THEN [err |-> TRUE, task |-> [t EXCEPT !.skipBrancheRegs = b.regs]]
        ELSE [err |-> l.err,
              task |-> [t EXCEPT !.skipBrancheRegs = b.regs, !.skipLabelRegs = l.regs]]

AnyMatch(regs, s) == \E i \in DOMAIN regs : MatchString(regs[i], s)

\* shouldRunTaskForPR: a task that is not always run is not run; else the
\* author, the base branch and the labels are tried, in this order, against
\* the skip rules of the task.
shouldRunTaskForPR(t, p) ==
    IF ~t.AlwaysRun THEN FALSE
    ELSE IF p.login \in t.SkipAuthors THEN FALSE
    ELSE IF AnyMatch(t.skipBrancheRegs, p.base) THEN FALSE
    ELSE IF \E l \in p.labels : AnyMatch(t.skipLabelRegs, l) THEN FALSE
    ELSE TRUE

\* The inputs the skip rules are tried on.
MaxPatterns == 2

Names == { <<"m">>, <<"r", "1">>, <<"f">> }
Patterns == { Pattern("exact", <<"m">>), Pattern("prefix", <<"r">>),
              Pattern("contains", <<"1">>), Pattern("invalid", <<>>) }
PatternLists == UNION { [1..k -> Patterns] : k \in 0..MaxPatterns }
Logins == {"u1", "u3"}

SkipDocTasks ==
    { DocTaskWith("p", a, "", au, b, l) :
        a \in BOOLEAN, au \in {{}, {"u1", "u2"}},
        b \in PatternLists, l \in PatternLists }

PullRequests == [login : Logins, base : Names, labels : SUBSET Names]

NoPr == [login |-> "", base |-> <<>>, labels |-> {}]

----------------------------------------------------------------------------
\* The agents that hold the configuration: ConfigAgent, which Server reads,
\* and TaskAgent, whose tasks carry skip rules.

\* Modification times the task file takes.
MaxModTime == 2

\* The goroutines that call TasksFor.
Readers == {"d1", "d2"}

\* What the task file holds: a well-formed document, text that is no
\* well-formed document, or nothing that can be read.
Written(d) == [kind |-> "document", doc |-> d]
Missing == [kind |-> "missing", doc |-> Empty]
Malformed == [kind |-> "malformed", doc |-> Empty]
WellFormed(f) == f.kind = "document"

\* The documents the ConfigAgent is watched under.
DocRepo == Single(FullName(Org, Repo), [n \in {"t1"} |-> DocTask("p1", TRUE, "")])
DocRepoName == Single(BareName(Repo), RepoNameTaskSet)
DocOrg == Single(BareName(Org), OrgTaskSet)
WatchedDocs == {DocRepo, DocRepoName, DocOrg}

\* The documents the TaskAgent is watched under: skip rules that compile, and
\* a document whose second task holds a label pattern that does not.
GoodRules(prompt) ==
    DocTaskWith(prompt, TRUE, "", {"u1"}, <<Pattern("exact", <<"m">>)>>,
                <<Pattern("prefix", <<"r">>), Pattern("contains", <<"1">>)>>)
BadRules(prompt) ==
    DocTaskWith(prompt, TRUE, "", {}, <<Pattern("exact", <<"m">>)>>,
                <<Pattern("prefix", <<"r">>), Pattern("invalid", <<>>)>>)
TaDocRepo ==
    Single(FullName(Org, Repo),
           [n \in {"t1", "t2"} |-> IF n = "t1" THEN GoodRules("p1") ELSE DocTask("p2", FALSE, "")])
TaDocOrg == Single(BareName(Org), [n \in {"t3"} |-> GoodRules("p3")])
TaDocBad ==
    Merge(Single(FullName(Org, Repo),
                 [n \in {"t1", "t2"} |-> IF n = "t1" THEN GoodRules("b1") ELSE BadRules("b2")]),
          Single(BareName(Org), [n \in {"t3"} |-> GoodRules("b3")]))
TaGoodDocs == {TaDocRepo, TaDocOrg}
TaWatchedDocs == TaGoodDocs \cup {TaDocBad}

\* os.ReadFile and json.Unmarshal of ConfigAgent.Reload: the error Reload
\* returns before it touches the agent, or the tree it is going to store.
ReloadOutcomeIgnoresUnmarshalError(f) ==
    IF f = Missing THEN [err |-> "read", config |-> Empty]
    ELSE IF f = Malformed THEN [err |-> "", config |-> Empty]
    ELSE [err |-> "", config |-> UnmarshalConfig(f.doc)]

ReloadOutcome(f) ==
    IF f = Missing THEN [err |-> "read", config |-> Empty]
    ELSE IF f = Malformed THEN [err |-> "unmarshal", config |-> Empty]
    ELSE [err |-> "", config |-> UnmarshalConfig(f.doc)]

\* json.Unmarshal of a well-formed document into a TasksConfig.
UnmarshalTasksConfig(doc) ==
    [k \in DOMAIN doc |-> [n \in DOMAIN doc[k] |-> UnmarshalTask(doc[k][n])]]

\* The same for ConfigAgent[TasksConfig].Reload.
TaReloadOutcome(f) ==
    IF f = Missing THEN [err |-> "read", config |-> Empty]
    ELSE IF f = Malformed THEN [err |-> "unmarshal", config |-> Empty]
    ELSE [err |-> "", config |-> UnmarshalTasksConfig(f.doc)]

\* The tasks of a tree, as the pairs the two range loops of TaskAgent.Reload
\* visit.
TasksOf(cfg) == UNION { { <<k, n>> : n \in DOMAIN cfg[k] } : k \in DOMAIN cfg }

\* The callback of TaskAgent.Reload goes on to the next task exactly when
\* initRegexps returned nil.
CallbackStopsOn(e) == e

\* The callback of TaskAgent.Reload run to its end on a tree whose patterns
\* all compile.
CompileAll(cfg) ==
    [k \in DOMAIN cfg |-> [n \in DOMAIN cfg[k] |-> initRegexps(cfg[k][n]).task]]

\* TaskAgent.TasksFor on one tree: the repository entry, else the
\* organization entry, else nil.
TaskAgentTasksFor(cfg, org, repo) ==
    IF FullName(org, repo) \in DOMAIN cfg THEN cfg[FullName(org, repo)]
    ELSE IF BareName(org) \in DOMAIN cfg THEN cfg[BareName(org)]
    ELSE Empty

\* mu.RLock() goes through when no writer holds mu.
CanRLock(m) == ~m.w

\* mu.Lock() goes through when nobody holds mu.
CanLock(m) == ~m.w /\ m.r = 0

Unlocked == [w |-> FALSE, r |-> 0]

\* No tick of WatchConfig has happened.
NoTick == [statErr |-> FALSE, mod |-> 0, seen |-> 0, called |-> FALSE]
WatchIdle == seenMod = 0 /\ lastTick = NoTick /\ failed = {}

AgentIdle ==
    /\ WatchIdle
    /\ file = Missing
    /\ modTime = 0
    /\ mu = Unlocked
    /\ lastMod = 0
    /\ wpc = "stopped"
    /\ parsed = Empty
    /\ saved = Empty
    /\ cpTodo = [key |-> <<>>, left |-> {}]
    /\ cpErr = FALSE
    /\ rlErr = ""
    /\ expected = Empty
    /\ rpc = [i \in Readers |-> "idle"]
    /\ rres = [i \in Readers |-> Empty]
    /\ rseen = [i \in Readers |-> {}]

----------------------------------------------------------------------------
\* The deliveries.

\* The repository a payload names.
Repository == [owner |-> Org, name |-> Repo]

\* A pull request as handle reads it: pr.Number and pr.Base.Repo.
NoPullRequest == [number |-> 0, base |-> [owner |-> "", name |-> ""]]

\* number, base, draft and mergable are the fields of pre.PullRequest.
PullRequestEvents ==
    [type : {"pull_request"}, parses : {TRUE},
     action : {"opened", "synchronize", "reopened", "closed"},
     number : PrNumbers, base : {Repository},
     draft : BOOLEAN, mergable : {"nil", "true", "false"}]

\* A comment body is a sequence of lines; a line is plain text or the command
\* verb followed by the captured text.
Plain == [cmd |-> FALSE, text |-> "lgtm"]
Command(text) == [cmd |-> TRUE, text |-> text]
CommentBodies ==
    { <<Plain>>, <<Command(defaultIssueReviewWorld)>>, <<Command("q1")>>,
      <<Plain, Command("q1"), Command(defaultIssueReviewWorld)>> }

\* number is ic.Issue.Number and repo is ic.Repo.
IssueCommentEvents ==
    [type : {"issue_comment"}, parses : {TRUE}, action : {"created", "edited"},
     number : PrNumbers, repo : {Repository},
     isPullRequest : BOOLEAN, body : CommentBodies]

OtherEvents ==
    { [type |-> "pull_request", parses |-> FALSE],
      [type |-> "issue_comment", parses |-> FALSE],
      [type |-> "push", parses |-> TRUE],
      [type |-> "push", parses |-> FALSE] }

Events == PullRequestEvents \cup IssueCommentEvents \cup OtherEvents

\* issueCommentMatchRegex.FindAllStringSubmatch(body, -1): one match, with
\* its captured text, per command line.
FindAllStringSubmatch(body) ==
    LET R[i \in 0..Len(body)] ==
            IF i = 0 THEN <<>>
            ELSE IF body[i].cmd THEN Append(R[i - 1], <<"line", body[i].text>>)
            ELSE R[i - 1]
    IN  R[Len(body)]

----------------------------------------------------------------------------
\* What the collaborators answer.

Payload(first, len) == [ok |-> TRUE, first |-> first, len |-> len]
JsonPayload == Payload("{", 120)
EmptyPayload == Payload("", 0)
DiffPayloads ==
    { Payload("d", 1), Payload("d", openaiMessageMaxLen),
      Payload("d", openaiMessageMaxLen + 1) }
FetchError == [ok |-> FALSE]
FetchAnswers == {FetchError, JsonPayload, EmptyPayload} \cup DiffPayloads

NoResp == [none |-> TRUE]

\* CreateChatCompletion: an error, a response without choices, or a response
\* whose last choice holds the text.
CompletionAnswers ==
    { [ok |-> FALSE, choices |-> <<>>], [ok |-> TRUE, choices |-> <<>>],
      [ok |-> TRUE, choices |-> <<"r1">>], [ok |-> TRUE, choices |-> <<"r1", "r2">>] }

MergableAnswers == {"nil", "true", "false"}

----------------------------------------------------------------------------
\* Server.getPullRequestDiff, one upstream call at a time.

\* diff[0] == '{'
BeginsWithBrace(d) == d.first = "{"

FetchOutcomeGivesUp(r) ==
    IF ~r.ok THEN "error"
    ELSE IF r.len = 0 THEN "panic"
    ELSE IF BeginsWithBrace(r) THEN "error"
    ELSE "return"

\* What getPullRequestDiff does with one answer of the upstream: "error"
\* returns the error, "panic" is diff[0] of an empty slice, "retry" sleeps and
\* calls again, "return" returns the payload.
FetchOutcome(r) ==
    IF ~r.ok THEN "error"
    ELSE IF r.len = 0 THEN "panic"
    ELSE IF BeginsWithBrace(r) THEN "retry"
    ELSE "return"

TooLargeAtCeiling(d) == d.len >= openaiMessageMaxLen

\* len(diff) > openaiMessageMaxLen
TooLarge(d) == d.len > openaiMessageMaxLen

----------------------------------------------------------------------------
\* Server.getTasks.

ForewordKeepsKeyword(captured) == captured

\* The foreword handleIssueComment hands to handle: the captured text, or the
\* built-in prompt when the captured text is the reserved word.
Foreword(captured) ==
    IF captured = defaultIssueReviewWorld THEN defaultPromte ELSE captured

getTasksFromConfig(cfg, org, repo, fw) == ConfigAgentTasksFor(cfg, org, repo)

getTasks(cfg, org, repo, fw) ==
    IF fw = "" THEN ConfigAgentTasksFor(cfg, org, repo)
    ELSE Single("user-comment-trigger",
                [Name |-> "", SystemMessage |-> defaultSystemMessage,
                 UserPrompt |-> fw,
                 PatchIntroducePrompt |-> defaultPrPatchIntroducePromte,
                 OutputStaticHeadNote |-> ""])

----------------------------------------------------------------------------
\* Server.taskRun and Server.createComment.

MessageWithFixedLabel(task, patch) ==
    << task.UserPrompt, "This is the pr title:", "[fence]text", PrTitle, "[fence]",
       "These are the pr description:", "[fence]text", PrBody, "[fence]",
       "This is the diff for the pull request:", "[fence]diff", patch, "[fence]" >>

\* The user message of a task.
Message(task, patch) ==
    << task.UserPrompt, "This is the pr title:", "[fence]text", PrTitle, "[fence]",
       "These are the pr description:", "[fence]text", PrBody, "[fence]",
       task.PatchIntroducePrompt, "[fence]diff", patch, "[fence]" >>

\* The Messages of the request sendMessageToChatGPTServer makes.
ChatMessages(systemMessage, userMessage) ==
    << [role |-> "system", content |-> systemMessage],
       [role |-> "user", content |-> userMessage] >>

\* sendMessageToChatGPTServer: the content of the last choice, "" without
\* choices, an error when the call failed.
SendResult(a) ==
    IF ~a.ok THEN [err |-> TRUE, text |-> ""]
    ELSE IF Len(a.choices) # 0 THEN [err |-> FALSE, text |-> a.choices[Len(a.choices)]]
    ELSE [err |-> FALSE, text |-> ""]

\* The comment text taskRun hands to createComment.
TaskComment(task, sent) ==
    IF sent.err THEN <<SendFailedNotice>>
    ELSE IF task.OutputStaticHeadNote # "" THEN <<task.OutputStaticHeadNote, sent.text>>
    ELSE <<sent.text>>

CommentBodyNeverQuoted(quoted, text) == [reply |-> FALSE, text |-> text]

\* The body createComment posts: a quoted reply to the triggering comment, or
\* the text as it is.
CommentBody(quoted, text) ==
    IF quoted THEN [reply |-> TRUE, text |-> <<"">> \o text]
    ELSE [reply |-> FALSE, text |-> text]

\* The range loop of handle goes on after a taskRun exactly when taskRun
\* returned nil, and taskRun returns what createComment returned.
LoopGoesOn(commentOk) == commentOk

----------------------------------------------------------------------------
\* The dispatch of one delivery.

Terminal == {"done", "skipped", "failed", "ignored", "parseError", "panicked"}

DispatchInit ==
    /\ ev \in Events
    /\ pc = "received"
    /\ err = ""
    /\ pr = NoPullRequest
    /\ foreword = ""
    /\ viaComment = FALSE
    /\ lastResp = NoResp
    /\ fetchCalls = 0
    /\ diff = NoResp
    /\ tasks = Empty
    /\ todo = {}
    /\ cur = ""
    /\ resp = <<>>
    /\ after = ""
    /\ completionCalls = <<>>
    /\ commentCalls = <<>>

\* The delivery was not dispatched before.
RedeliveryIdle == prevOrder = <<>>

\* The connection has no delivery.
ServeIdle ==
    /\ delivered = <<>>
    /\ accepted = <<>>
    /\ upstream = <<>>
    /\ srvPc = <<>>
    /\ acked = <<>>
    /\ jobPc = <<>>
    /\ jobTodo = <<>>

\* NormalizeCoAuthorBy is not called.
CoIdle ==
    /\ coAuthors = <<>>
    /\ coLogin = ""
    /\ coOut = <<>>
    /\ coPc = "idle"

\* No call of the helpers is under way.
LibIdle ==
    /\ spText = <<>>
    /\ spLen = 0
    /\ spOut = <<>>
    /\ spPc = "idle"
    /\ RedeliveryIdle
    /\ ServeIdle
    /\ CoIdle

SkipIdle ==
    /\ skTask = UnmarshalTask(DocTask("", FALSE, ""))
    /\ skPr = NoPr
    /\ skPc = "idle"
    /\ skErr = FALSE
    /\ skRun = FALSE

DispatchIdle ==
    /\ ev = [type |-> "push", parses |-> TRUE]
    /\ pc = "ignored"
    /\ err = ""
    /\ pr = NoPullRequest
    /\ foreword = ""
    /\ viaComment = FALSE
    /\ lastResp = NoResp
    /\ fetchCalls = 0
    /\ diff = NoResp
    /\ tasks = Empty
    /\ todo = {}
    /\ cur = ""
    /\ resp = <<>>
    /\ after = ""
    /\ completionCalls = <<>>
    /\ commentCalls = <<>>

\* A dispatch under the tree a ConfigAgent loaded from a well-formed document.
Init ==
    /\ DispatchInit
    /\ SkipIdle
    /\ LibIdle
    /\ WatchIdle
    /\ \E d \in Docs :
          /\ config = UnmarshalConfig(d)
          /\ file = Written(d)
          /\ modTime = 1
          /\ mu = Unlocked
          /\ lastMod = 0
          /\ wpc = "stopped"
          /\ parsed = config
          /\ saved = config
          /\ cpTodo = [key |-> <<>>, left |-> {}]
          /\ cpErr = FALSE
          /\ rlErr = ""
          /\ expected = config
          /\ rpc = [i \in Readers |-> "idle"]
          /\ rres = [i \in Readers |-> Empty]
          /\ rseen = [i \in Readers |-> {}]

DispatchUnchanged == UNCHANGED <<agentVars, skipVars, libVars>>

handleEventDropsError(e) ==
    IF e.type \notin {"issue_comment", "pull_request"} THEN "ignored"
    ELSE IF ~e.parses THEN "ignored"
    ELSE "started"

\* The switch of handleEvent: an event of another type is logged and nothing
\* more, a payload json.Unmarshal rejects is returned as an error, and for
\* any other the handler of the type is started on a goroutine.
handleEventOutcome(e) ==
    IF e.type \notin {"issue_comment", "pull_request"} THEN "ignored"
    ELSE IF ~e.parses THEN "parseError"
    ELSE "started"

\* Server.handleEvent: the payload is parsed and the handler of the event
\* type is started on its own goroutine.
handleEvent ==
    /\ pc = "received"
    /\ pc' = handleEventOutcome(ev)
    /\ err' = IF pc' = "parseError" THEN "unmarshal" ELSE ""
    /\ UNCHANGED <<ev, pr, foreword, viaComment, lastResp, fetchCalls, diff, tasks,
                   todo, cur, resp, after, completionCalls, commentCalls>>
    /\ DispatchUnchanged

ReturnsEarlyIgnoresDraft(e) ==
    \/ e.action \notin {"opened", "synchronize", "reopened"}
    \/ e.mergable = "false"

\* The two early returns of handlePullRequest: the action is none of the
\* three, or the pull request is a draft or known not to be mergable.
ReturnsEarly(e) ==
    \/ e.action \notin {"opened", "synchronize", "reopened"}
    \/ e.draft
    \/ e.mergable = "false"

\* Server.handlePullRequest, up to the call of handle.
handlePullRequest ==
    /\ pc = "started"
    /\ ev.type = "pull_request"
    /\ IF ReturnsEarly(ev)
       THEN pc' = "ignored" /\ UNCHANGED pr
       ELSE pc' = "fetch" /\ pr' = [number |-> ev.number, base |-> ev.base]
    /\ foreword' = ""
    /\ viaComment' = FALSE
    /\ UNCHANGED <<ev, err, lastResp, fetchCalls, diff, tasks, todo, cur, resp,
                   after, completionCalls, commentCalls>>
    /\ DispatchUnchanged

IgnoresCommentBeforeMatch(e) == ~e.isPullRequest \/ e.action # "created"

\* The two early returns of handleIssueComment: the comment is not a new
\* comment of a pull request, or no line of it is a command.
IgnoresComment(e) ==
    LET commentMatches == FindAllStringSubmatch(e.body)
    IN  \/ ~e.isPullRequest
        \/ e.action # "created"
        \/ Len(commentMatches) = 0
        \/ Len(commentMatches[1]) # 2

\* Server.handleIssueComment, up to the call of ghc.GetPullRequest.
handleIssueComment ==
    /\ pc = "started"
    /\ ev.type = "issue_comment"
    /\ IF IgnoresComment(ev)
       THEN pc' = "ignored"
       ELSE pc' = "getpr"
    /\ UNCHANGED <<ev, err, pr, foreword, viaComment, lastResp, fetchCalls, diff,
                   tasks, todo, cur, resp, after, completionCalls, commentCalls>>
    /\ DispatchUnchanged

\* ghc.GetPullRequest(org, repo, num): the upstream answers with the pull
\* request it was asked for.
PullRequestAsked(org, repo, num) ==
    [number |-> num, base |-> [owner |-> org, name |-> repo]]

\* Server.handleIssueComment from the answer of ghc.GetPullRequest to the call
\* of handle.
GetPullRequest ==
    /\ pc = "getpr"
    /\ \E ok \in BOOLEAN, m \in MergableAnswers :
          IF ~ok
          THEN /\ pc' = "failed"
               /\ err' = "GetPullRequest"
               /\ UNCHANGED <<pr, foreword, viaComment, resp, after>>
          ELSE IF m = "false"
          THEN /\ pc' = "publish"
               /\ pr' = PullRequestAsked(ev.repo.owner, ev.repo.name, ev.number)
               /\ resp' = <<SkipNotMergableNotice>>
               /\ after' = "handleIssueComment"
               /\ viaComment' = TRUE
               /\ UNCHANGED <<err, foreword>>
          ELSE /\ pc' = "fetch"
               /\ pr' = PullRequestAsked(ev.repo.owner, ev.repo.name, ev.number)
               /\ foreword' = Foreword(FindAllStringSubmatch(ev.body)[1][2])
               /\ viaComment' = TRUE
               /\ UNCHANGED <<err, resp, after>>
    /\ UNCHANGED <<ev, lastResp, fetchCalls, diff, tasks, todo, cur,
                   completionCalls, commentCalls>>
    /\ DispatchUnchanged

NextTaskFetchesAgain(left) ==
    IF left = {}
    THEN pc' = "done" /\ cur' = "" /\ todo' = {}
    ELSE \E n \in left : pc' = "fetch" /\ cur' = n /\ todo' = left \ {n}

\* The range loop of handle takes the next task (in no fixed order) or ends.
NextTask(left) ==
    IF left = {}
    THEN pc' = "done" /\ cur' = "" /\ todo' = {}
    ELSE \E n \in left : pc' = "send" /\ cur' = n /\ todo' = left \ {n}

\* The calls of ghc.GetPullRequestDiff are counted up to MaxFetchCalls.
CallsCounted(n) == IF n < MaxFetchCalls THEN n + 1 ELSE n

\* One ghc.GetPullRequestDiff call of getPullRequestDiff and, when it returns
\* the artifact, handle up to its getTasks call.
GetPullRequestDiff ==
    /\ pc = "fetch"
    /\ \E r \in FetchAnswers :
          /\ lastResp' = r
          /\ fetchCalls' = CallsCounted(fetchCalls)
          /\ CASE FetchOutcome(r) = "error" ->
                    /\ pc' = "failed"
                    /\ err' = "GetPullRequestDiff"
                    /\ UNCHANGED <<diff, tasks, todo, cur, resp, after>>
               [] FetchOutcome(r) = "panic" ->
                    /\ pc' = "panicked"
                    /\ UNCHANGED <<err, diff, tasks, todo, cur, resp, after>>
               [] FetchOutcome(r) = "retry" ->
                    /\ pc' = "fetch"
                    /\ UNCHANGED <<err, diff, tasks, todo, cur, resp, after>>
               [] OTHER ->
                    /\ diff' = r
                    /\ IF TooLarge(r)
                       THEN /\ pc' = "publish"
                            /\ resp' = <<SkipTooLargeNotice>>
                            /\ after' = "handle"
                            /\ UNCHANGED <<err, tasks, todo, cur>>
                       ELSE /\ pc' = "tasks"
                            /\ UNCHANGED <<err, tasks, todo, cur, resp, after>>
    /\ UNCHANGED <<ev, pr, foreword, viaComment, completionCalls, commentCalls>>
    /\ DispatchUnchanged

\* The getTasks call of handle, and handle up to the first taskRun.
GetTasks ==
    /\ pc = "tasks"
    /\ tasks' = getTasks(config, pr.base.owner, pr.base.name, foreword)
    /\ NextTask(DOMAIN tasks')
    /\ UNCHANGED <<ev, err, pr, foreword, viaComment, lastResp, fetchCalls, diff,
                   resp, after, completionCalls, commentCalls>>
    /\ DispatchUnchanged

AfterCompletionSendsAgain == "send"

\* sendMessageToChatGPTServer has returned: taskRun goes on to createComment,
\* with the answer or with the notice of the failure.
AfterCompletion == "publish"

\* Server.taskRun up to its createComment call: the message is composed and
\* sent to the completion backend.
SendMessage ==
    /\ pc = "send"
    /\ \E a \in CompletionAnswers :
          LET task == tasks[cur]
              sent == SendResult(a)
          IN  /\ completionCalls' =
                    Append(completionCalls,
                           [task |-> cur,
                            messages |-> ChatMessages(task.SystemMessage,
                                                      Message(task, diff)),
                            answer |-> a])
              /\ resp' = TaskComment(task, sent)
    /\ after' = "taskRun"
    /\ pc' = AfterCompletion
    /\ UNCHANGED <<ev, err, pr, foreword, viaComment, lastResp, fetchCalls, diff,
                   tasks, todo, cur, commentCalls>>
    /\ DispatchUnchanged

CommentArgsOfFirstNumber(caller) ==
    IF caller = "handleIssueComment"
    THEN [org |-> ev.repo.owner, repo |-> ev.repo.name, num |-> 7]
    ELSE [org |-> pr.base.owner, repo |-> pr.base.name, num |-> 7]

\* The org, repo and num a caller passes to createComment: handleIssueComment
\* passes ic.Repo and ic.Issue.Number, handle and taskRun pass pr.Base.Repo
\* and pr.Number.
CommentArgs(caller) ==
    IF caller = "handleIssueComment"
    THEN [org |-> ev.repo.owner, repo |-> ev.repo.name, num |-> ev.number]
    ELSE [org |-> pr.base.owner, repo |-> pr.base.name, num |-> pr.number]

\* Server.createComment and what its caller does with the result.
CreateComment ==
    /\ pc = "publish"
    /\ \E ok \in BOOLEAN :
          /\ commentCalls' =
                Append(commentCalls,
                       [task |-> cur,
                        org |-> CommentArgs(after).org,
                        repo |-> CommentArgs(after).repo,
                        num |-> CommentArgs(after).num,
                        body |-> CommentBody(viaComment, resp), ok |-> ok])
          /\ IF after = "taskRun" /\ LoopGoesOn(ok)
             THEN NextTask(todo) /\ UNCHANGED err
             ELSE /\ pc' = IF ok THEN "skipped" ELSE "failed"
                  /\ err' = IF ok THEN "" ELSE "CreateComment"
                  /\ UNCHANGED <<todo, cur>>
    /\ UNCHANGED <<ev, pr, foreword, viaComment, lastResp, fetchCalls, diff, tasks,
                   resp, after, completionCalls>>
    /\ DispatchUnchanged

Next ==
    \/ handleEvent
    \/ handlePullRequest
    \/ handleIssueComment
    \/ GetPullRequest
    \/ GetPullRequestDiff
    \/ GetTasks
    \/ SendMessage
    \/ CreateComment

Spec == Init /\ [][Next]_vars

----------------------------------------------------------------------------
\* What a dispatch did, read off its logs.

HasDiff == diff # NoResp
Oversized == HasDiff /\ diff.len > openaiMessageMaxLen
\* handle reached getTasks: the task map is the selection of the dispatch.
Selected == HasDiff /\ diff.len <= openaiMessageMaxLen /\ pc # "tasks"
Lifecycle == ev.type = "pull_request"

\* The createComment calls made for task n. A comment counts as posted as
\* soon as the call was made, whatever the upstream answered.
CommentsOf(n) == { i \in DOMAIN commentCalls : commentCalls[i].task = n }
CompletionsOf(n) == { i \in DOMAIN completionCalls : completionCalls[i].task = n }
NoticeCalls(notice) ==
    { i \in DOMAIN commentCalls :
        commentCalls[i].body = CommentBody(viaComment, <<notice>>) }

\* The key of the document under which TasksFor found the selected tasks.
SelectedKey ==
    IF FullName(Org, Repo) \in DOMAIN file.doc THEN FullName(Org, Repo)
    ELSE IF BareName(Repo) \in DOMAIN file.doc THEN BareName(Repo)
    ELSE <<>>

----------------------------------------------------------------------------
\* C1: when a dispatch that selected at least one task has ended, exactly one
\* comment has been posted for each selected task, whatever the fetch, the
\* completion calls and the create-comment calls answered.
C1_OneCommentPerSelectedTask ==
    (pc \in Terminal /\ Selected) =>
        \A n \in DOMAIN tasks : Cardinality(CommentsOf(n)) = 1

\* C2: a dispatch started by a pull_request event never runs a task whose
\* always_run is false in the configuration.
C2_LifecycleRunsOnlyAlwaysRun ==
    (Lifecycle /\ SelectedKey # <<>>) =>
        \A i \in DOMAIN completionCalls :
            file.doc[SelectedKey][completionCalls[i].task].always_run

\* C7: a failure in one task (its completion call or the publication of its
\* comment) does not keep the other tasks of the event from being run: when
\* the dispatch has ended every selected task was run.
C7_FailureDoesNotStopOtherTasks ==
    (pc \in Terminal /\ Selected) =>
        \A n \in DOMAIN tasks : CompletionsOf(n) # {}

\* C8: an artifact longer than openaiMessageMaxLen makes the dispatch post the
\* too-large notice, once, and nothing else, without any completion call and
\* whatever tasks are configured; an artifact of at most that length never
\* draws the notice and has its tasks selected and sent.
C8_OversizedSkipsOnce ==
    /\ Oversized =>
         /\ completionCalls = <<>>
         /\ Len(commentCalls) <= 1
         /\ NoticeCalls(SkipTooLargeNotice) = DOMAIN commentCalls
         /\ pc \in {"publish", "skipped", "failed"}
         /\ pc \in Terminal => Len(commentCalls) = 1
         /\ pc = "skipped" <=> (Len(commentCalls) = 1 /\ commentCalls[1].ok)
    /\ (HasDiff /\ ~Oversized) =>
         /\ NoticeCalls(SkipTooLargeNotice) = {}
         /\ pc # "skipped"
         /\ pc # "tasks" => tasks = getTasks(config, Org, Repo, foreword)
         /\ (pc \in Terminal /\ DOMAIN tasks # {}) => completionCalls # <<>>

C8_Witness ==
    /\ Oversized
    /\ pc = "skipped"
    /\ Len(commentCalls) = 1
    /\ Cardinality(DOMAIN ConfigAgentTasksFor(config, Org, Repo)) = 2

\* C9: getPullRequestDiff calls the upstream again exactly when the latest
\* successful answer begins with '{', and returns unchanged the first answer
\* that does not.
C9_ReturnsFirstAnswerWithoutBrace ==
    (lastResp # NoResp /\ lastResp.ok) =>
        IF BeginsWithBrace(lastResp)
        THEN pc = "fetch" /\ diff = NoResp
        ELSE pc # "fetch" /\ diff = lastResp

\* C10: the fetch has no retry ceiling. A step of the fetch stays in the fetch
\* exactly when the upstream answered a payload that begins with '{', however
\* many calls were made before, and leaves it exactly on an error or on a
\* payload that does not begin with '{'; nothing is sent or posted while the
\* dispatch is fetching.
C10_FetchRetriesWithoutCeiling ==
    [][ /\ pc = "fetch" => (commentCalls = <<>> /\ completionCalls = <<>>)
        /\ pc = "fetch" =>
              /\ fetchCalls' = CallsCounted(fetchCalls)
              /\ (pc' = "fetch") <=> (lastResp'.ok /\ BeginsWithBrace(lastResp'))
              /\ pc' = "fetch" => (commentCalls' = <<>> /\ diff' = NoResp) ]_vars

C10_Witness ==
    /\ pc = "fetch"
    /\ fetchCalls = MaxFetchCalls
    /\ lastResp = JsonPayload

----------------------------------------------------------------------------
\* The skip rules tried on one task and one pull request.

SkipInit ==
    /\ skTask \in { UnmarshalTask(t) : t \in SkipDocTasks }
    /\ skPr \in PullRequests
    /\ skPc = "loaded"
    /\ skErr = FALSE
    /\ skRun = FALSE

\* The task's patterns are compiled, as Reload does for every task of a
\* document and Test_shouldRunTaskForPR before it tries the task.
InitRegexps ==
    /\ skPc = "loaded"
    /\ skTask' = initRegexps(skTask).task
    /\ skErr' = initRegexps(skTask).err
    /\ skPc' = "compiled"
    /\ UNCHANGED <<skPr, skRun, dispatchVars, agentVars, libVars>>

ShouldRunTaskForPR ==
    /\ skPc = "compiled"
    /\ skRun' = shouldRunTaskForPR(skTask, skPr)
    /\ skPc' = "ran"
    /\ UNCHANGED <<skTask, skPr, skErr, dispatchVars, agentVars, libVars>>

SkipSpecInit ==
    /\ SkipInit
    /\ DispatchIdle
    /\ AgentIdle
    /\ config = Empty
    /\ LibIdle

SkipNext == InitRegexps \/ ShouldRunTaskForPR

SpecSkip == SkipSpecInit /\ [][SkipNext]_vars

\* A raw pattern string matches a name.
PatternMatches(p, s) == ~Compile(p).err /\ MatchString(Compile(p).re, s)

\* C3: for a task that is always run and whose patterns compiled,
\* shouldRunTaskForPR is true exactly when the author is not one of the
\* task's skip authors, no branch pattern of the task matches the base branch
\* and no label pattern of the task matches a label of the pull request.
C3_RunsIffNoSkipRuleMatches ==
    (skPc = "ran" /\ ~skErr /\ skTask.AlwaysRun) =>
        (skRun <=>
            /\ skPr.login \notin skTask.SkipAuthors
            /\ \A i \in DOMAIN skTask.SkipBrancheRegs :
                  ~PatternMatches(skTask.SkipBrancheRegs[i], skPr.base)
            /\ \A l \in skPr.labels : \A i \in DOMAIN skTask.SkipLabelRegs :
                  ~PatternMatches(skTask.SkipLabelRegs[i], l))

\* A task skipped by a label pattern alone.
C3_Witness ==
    /\ skPc = "ran"
    /\ ~skErr
    /\ skTask.AlwaysRun
    /\ ~skRun
    /\ skPr.login \notin skTask.SkipAuthors
    /\ ~AnyMatch(skTask.skipBrancheRegs, skPr.base)
    /\ Len(skTask.SkipBrancheRegs) > 0
    /\ Len(skTask.SkipLabelRegs) = MaxPatterns

----------------------------------------------------------------------------
\* WatchConfig, Reload and TasksFor of the two agents.

InCall == {"first", "second", "unlock"}

\* The task file is written: its content changes, and its modification time
\* advances, stays (two writes within the granularity of the clock) or goes
\* back (an older copy is put in place with its time).
Rewrite(docs) ==
    \E f \in {Written(d) : d \in docs} \cup {Missing, Malformed},
       t \in {modTime - 1, modTime, modTime + 1} :
        /\ t >= 1
        /\ t <= MaxModTime
        /\ <<f, t>> # <<file, modTime>>
        /\ file' = f
        /\ modTime' = t

WriteFile ==
    /\ Rewrite(WatchedDocs)
    /\ UNCHANGED <<config, mu, lastMod, wpc, parsed, saved, cpTodo, cpErr, rlErr,
                   expected, rpc, rres, rseen, dispatchVars, skipVars,
                   libVars, watchVars>>

TaWriteFile ==
    /\ Rewrite(TaWatchedDocs)
    /\ UNCHANGED <<config, mu, lastMod, wpc, parsed, saved, cpTodo, cpErr, rlErr,
                   expected, rpc, rres, rseen, dispatchVars, skipVars,
                   libVars, watchVars>>

AfterHandlerStopsOnError(e) == IF e # "" THEN "stopped" ELSE "tick"

\* The handler has returned: WatchConfig drops what it returned and the for
\* loop goes to its next select.
AfterHandler(e) == "tick"

AfterOrEqual(m, last) == m >= last

\* modTime.After(lastMod)
After(m, last) == m > last

LastModKept(m, last) == last

\* lastMod = modTime, the value lastMod has when the handler is called.
LastModAtCall(m, last) == m

\* One tick of WatchConfig: os.Stat of the file; when its modification time
\* is after lastMod, lastMod is set and the handler is called.
WatchTick ==
    /\ wpc = "tick"
    /\ LET statOk == file # Missing
           calls == statOk /\ After(modTime, lastMod)
       IN  /\ IF calls
              THEN lastMod' = LastModAtCall(modTime, lastMod) /\ wpc' = "read"
              ELSE UNCHANGED <<lastMod, wpc>>
           /\ lastTick' = [statErr |-> ~statOk,
                           mod |-> IF statOk THEN modTime ELSE 0,
                           seen |-> seenMod,
                           called |-> calls]
           /\ seenMod' = IF statOk /\ modTime > seenMod THEN modTime ELSE seenMod
           /\ failed' = IF statOk THEN failed ELSE failed \cup {"stat"}
    /\ UNCHANGED <<file, modTime, config, mu, parsed, saved, cpTodo, cpErr, rlErr,
                   expected, rpc, rres, rseen, dispatchVars, skipVars,
                   libVars>>

\* ConfigAgent.Reload up to mu.Lock(): the file is read and unmarshalled into
\* a fresh Config; an error returns at once.
ReloadRead ==
    /\ wpc = "read"
    /\ saved' = config
    /\ expected' = IF WellFormed(file) THEN UnmarshalConfig(file.doc) ELSE expected
    /\ LET out == ReloadOutcome(file)
       IN  IF out.err # ""
           THEN /\ rlErr' = out.err
                /\ parsed' = Empty
                /\ wpc' = AfterHandler(out.err)
                /\ failed' = failed \cup {"handler"}
           ELSE /\ rlErr' = rlErr
                /\ parsed' = out.config
                /\ wpc' = "lock"
                /\ UNCHANGED failed
    /\ UNCHANGED <<file, modTime, config, mu, lastMod, cpTodo, cpErr, rpc, rres,
                   rseen, dispatchVars, skipVars,
                   libVars, seenMod, lastTick>>

\* mu.Lock() of Reload.
ReloadLock ==
    /\ wpc = "lock"
    /\ CanLock(mu)
    /\ mu' = [mu EXCEPT !.w = TRUE]
    /\ wpc' = "assign"
    /\ UNCHANGED <<file, modTime, config, lastMod, parsed, saved, cpTodo, cpErr,
                   rlErr, expected, rpc, rres, rseen, dispatchVars, skipVars,
                   libVars, watchVars>>

\* c.config = config, mu.Unlock() and the return of Reload.
ReloadAssign ==
    /\ wpc = "assign"
    /\ config' = parsed
    /\ mu' = [mu EXCEPT !.w = FALSE]
    /\ rlErr' = ""
    /\ wpc' = AfterHandler("")
    /\ rseen' = [i \in Readers |->
                    IF rpc[i] \in InCall THEN rseen[i] \cup {parsed} ELSE rseen[i]]
    /\ UNCHANGED <<file, modTime, lastMod, parsed, saved, cpTodo, cpErr, expected,
                   rpc, rres, dispatchVars, skipVars,
                   libVars, watchVars>>

\* mu.RLock() of TasksFor.
TasksForRLock(i) ==
    /\ rpc[i] \in {"idle", "done"}
    /\ CanRLock(mu)
    /\ mu' = [mu EXCEPT !.r = @ + 1]
    /\ rpc' = [rpc EXCEPT ![i] = "first"]
    /\ rres' = [rres EXCEPT ![i] = Empty]
    /\ rseen' = [rseen EXCEPT ![i] = {config}]
    /\ UNCHANGED <<file, modTime, config, lastMod, wpc, parsed, saved, cpTodo, cpErr,
                   rlErr, expected, dispatchVars, skipVars,
                   libVars, watchVars>>

\* The first lookup of TasksFor, under "org/repo".
TasksForRepoLookup(i) ==
    /\ rpc[i] = "first"
    /\ IF FullName(Org, Repo) \in DOMAIN config
       THEN /\ rres' = [rres EXCEPT ![i] = config[FullName(Org, Repo)]]
            /\ rpc' = [rpc EXCEPT ![i] = "unlock"]
       ELSE /\ rpc' = [rpc EXCEPT ![i] = "second"]
            /\ UNCHANGED rres
    /\ UNCHANGED <<file, modTime, config, mu, lastMod, wpc, parsed, saved, cpTodo,
                   cpErr, rlErr, expected, rseen, dispatchVars, skipVars,
                   libVars, watchVars>>

\* The second lookup of ConfigAgent.TasksFor, under the repository's name,
\* and the task set it builds when that fails too.
ConfigAgentSecondLookup(i) ==
    /\ rpc[i] = "second"
    /\ rres' = [rres EXCEPT ![i] =
                   IF BareName(Repo) \in DOMAIN config THEN config[BareName(Repo)]
                   ELSE Single("default", EmptyTaskConfig)]
    /\ rpc' = [rpc EXCEPT ![i] = "unlock"]
    /\ UNCHANGED <<file, modTime, config, mu, lastMod, wpc, parsed, saved, cpTodo,
                   cpErr, rlErr, expected, rseen, dispatchVars, skipVars,
                   libVars, watchVars>>

\* The second lookup of TaskAgent.TasksFor, under the organization; nil when
\* that fails too.
TaskAgentSecondLookup(i) ==
    /\ rpc[i] = "second"
    /\ rres' = [rres EXCEPT ![i] =
                   IF BareName(Org) \in DOMAIN config THEN config[BareName(Org)]
                   ELSE Empty]
    /\ rpc' = [rpc EXCEPT ![i] = "unlock"]
    /\ UNCHANGED <<file, modTime, config, mu, lastMod, wpc, parsed, saved, cpTodo,
                   cpErr, rlErr, expected, rseen, dispatchVars, skipVars,
                   libVars, watchVars>>

RUnlockMissing(r) == r

\* The readers of mu after the deferred mu.RUnlock() of a TasksFor call.
RUnlock(r) == r - 1

\* The deferred mu.RUnlock() and the return of TasksFor.
TasksForRUnlock(i) ==
    /\ rpc[i] = "unlock"
    /\ mu' = [mu EXCEPT !.r = RUnlock(@)]
    /\ rpc' = [rpc EXCEPT ![i] = "done"]
    /\ UNCHANGED <<file, modTime, config, lastMod, wpc, parsed, saved, cpTodo, cpErr,
                   rlErr, expected, rres, rseen, dispatchVars, skipVars,
                   libVars, watchVars>>

HasInvalidPattern(cfg) ==
    \E kn \in TasksOf(cfg) :
        LET t == cfg[kn[1]][kn[2]]
        IN  \/ \E i \in DOMAIN t.SkipBrancheRegs : Compile(t.SkipBrancheRegs[i]).err
            \/ \E i \in DOMAIN t.SkipLabelRegs : Compile(t.SkipLabelRegs[i]).err

\* One tick of the WatchConfig of the TaskAgent: as that of the ConfigAgent,
\* without the record of what the ticks observed.
TaWatchTick ==
    /\ wpc = "tick"
    /\ file # Missing
    /\ After(modTime, lastMod)
    /\ lastMod' = LastModAtCall(modTime, lastMod)
    /\ wpc' = "read"
    /\ UNCHANGED <<file, modTime, config, mu, parsed, saved, cpTodo, cpErr, rlErr,
                   expected, rpc, rres, rseen, dispatchVars, skipVars,
                   libVars, watchVars>>

\* ConfigAgent[TasksConfig].Reload up to mu.Lock(): the file is read and
\* unmarshalled into a fresh tree; an error returns at once.
TaReloadRead ==
    /\ wpc = "read"
    /\ expected' = IF WellFormed(file) /\ ~HasInvalidPattern(UnmarshalTasksConfig(file.doc))
                   THEN CompileAll(UnmarshalTasksConfig(file.doc)) ELSE expected
    /\ LET out == TaReloadOutcome(file)
       IN  IF out.err # ""
           THEN /\ rlErr' = out.err
                /\ parsed' = Empty
                /\ wpc' = AfterHandler(out.err)
           ELSE /\ rlErr' = rlErr
                /\ parsed' = out.config
                /\ wpc' = "lock"
    /\ UNCHANGED <<file, modTime, config, mu, lastMod, saved, cpTodo, cpErr, rpc,
                   rres, rseen, dispatchVars, skipVars,
                   libVars, watchVars>>

\* mu.Lock() of the Reload: the write lock is taken for the swap of the tree.
TaReloadLock ==
    /\ wpc = "lock"
    /\ CanLock(mu)
    /\ mu' = [mu EXCEPT !.w = TRUE]
    /\ wpc' = "assign"
    /\ UNCHANGED <<file, modTime, config, lastMod, parsed, saved, cpTodo, cpErr,
                   rlErr, expected, rpc, rres, rseen, dispatchVars, skipVars,
                   libVars, watchVars>>

\* The swap and mu.Unlock(); the Reload then calls the callback of
\* TaskAgent.Reload, which works on a.config.
TaReloadAssign ==
    /\ wpc = "assign"
    /\ saved' = config
    /\ config' = parsed
    /\ mu' = [mu EXCEPT !.w = FALSE]
    /\ cpTodo' = [key |-> <<>>, left |-> TasksOf(parsed)]
    /\ cpErr' = FALSE
    /\ wpc' = "compile"
    /\ rseen' = [i \in Readers |->
                    IF rpc[i] \in InCall THEN rseen[i] \cup {parsed} ELSE rseen[i]]
    /\ UNCHANGED <<file, modTime, lastMod, parsed, rlErr, expected, rpc, rres,
                   dispatchVars, skipVars, libVars, watchVars>>

\* One turn of the inner range loop of TaskAgent.Reload's callback:
\* initRegexps on one task of a.config, in place. The tasks of one entry are
\* visited before the next entry is begun, entries and tasks in no fixed
\* order.
TaCompileTask ==
    /\ wpc = "compile"
    /\ ~cpErr
    /\ \E kn \in cpTodo.left :
          /\ (\E x \in cpTodo.left : x[1] = cpTodo.key) => kn[1] = cpTodo.key
          /\ LET r == initRegexps(config[kn[1]][kn[2]])
             IN  /\ config' = [config EXCEPT ![kn[1]][kn[2]] = r.task]
                 /\ cpErr' = CallbackStopsOn(r.err)
          /\ cpTodo' = [key |-> kn[1], left |-> cpTodo.left \ {kn}]
    /\ UNCHANGED <<file, modTime, mu, lastMod, wpc, parsed, saved, rlErr, expected,
                   rpc, rres, rseen, dispatchVars, skipVars,
                   libVars, watchVars>>

\* The callback returned, and the Reload returns what it returned.
TaReloadReturn ==
    /\ wpc = "compile"
    /\ cpErr \/ cpTodo.left = {}
    /\ rlErr' = IF cpErr THEN "compile" ELSE ""
    /\ wpc' = AfterHandler(rlErr')
    /\ UNCHANGED <<file, modTime, config, mu, lastMod, parsed, saved, cpTodo, cpErr,
                   expected, rpc, rres, rseen, dispatchVars, skipVars,
                   libVars, watchVars>>

\* The agent after NewConfigAgent / NewTaskAgent returned it: the first Reload
\* succeeded and the WatchConfig goroutine is started.
AgentStarted ==
    /\ WatchIdle
    /\ modTime = 1
    /\ mu = Unlocked
    /\ lastMod = 0
    /\ wpc = "tick"
    /\ parsed = Empty
    /\ saved = config
    /\ cpTodo = [key |-> <<>>, left |-> {}]
    /\ cpErr = FALSE
    /\ rlErr = ""
    /\ expected = config
    /\ rpc = [i \in Readers |-> "idle"]
    /\ rres = [i \in Readers |-> Empty]
    /\ rseen = [i \in Readers |-> {}]

ConfigAgentInit ==
    /\ \E d \in WatchedDocs : file = Written(d) /\ config = UnmarshalConfig(d)
    /\ AgentStarted
    /\ DispatchIdle
    /\ SkipIdle
    /\ LibIdle

TaskAgentInit ==
    /\ \E d \in TaGoodDocs :
          file = Written(d) /\ config = CompileAll(UnmarshalTasksConfig(d))
    /\ AgentStarted
    /\ DispatchIdle
    /\ SkipIdle
    /\ LibIdle

ConfigAgentNext ==
    \/ WriteFile
    \/ WatchTick
    \/ ReloadRead
    \/ ReloadLock
    \/ ReloadAssign
    \/ \E i \in Readers : TasksForRLock(i)
    \/ \E i \in Readers : TasksForRepoLookup(i)
    \/ \E i \in Readers : ConfigAgentSecondLookup(i)
    \/ \E i \in Readers : TasksForRUnlock(i)

\* The dispatch that calls TasksFor while the TaskAgent reloads.
TaReaders == {"d1"}

TaskAgentNext ==
    \/ TaWriteFile
    \/ TaWatchTick
    \/ TaReloadRead
    \/ TaReloadLock
    \/ TaReloadAssign
    \/ TaCompileTask
    \/ TaReloadReturn
    \/ \E i \in TaReaders : TasksForRLock(i)
    \/ \E i \in TaReaders : TasksForRepoLookup(i)
    \/ \E i \in TaReaders : TaskAgentSecondLookup(i)
    \/ \E i \in TaReaders : TasksForRUnlock(i)

SpecConfigAgent == ConfigAgentInit /\ [][ConfigAgentNext]_vars
SpecTaskAgent == TaskAgentInit /\ [][TaskAgentNext]_vars

----------------------------------------------------------------------------
\* Claims about the stored configuration.

\* C4: whenever no Reload of the ConfigAgent is under way, the configuration
\* TasksFor reads is the tree of the latest load of a readable, well-formed
\* file; a Reload that returned an error left it as it was before the call,
\* and one that returned nil stored the tree it parsed.
C4_ConfigIsLatestSuccessfulLoad ==
    /\ wpc \in {"tick", "read"} => config = expected
    /\ (wpc = "tick" /\ rlErr # "") => config = saved
    /\ (wpc = "tick" /\ rlErr = "" /\ lastMod > 0) => config = parsed

\* A Reload failed on a malformed file after another document had been
\* written, and the agent holds a tree.
C4_Witness ==
    /\ wpc = "tick"
    /\ rlErr = "unmarshal"
    /\ file = Malformed
    /\ lastMod = modTime
    /\ config = UnmarshalConfig(DocRepoName)

\* A task of a tree whose compiled lists are the whole of its patterns.
FullyCompiled(t) ==
    /\ ~CompileInto(<<>>, t.SkipBrancheRegs).err
    /\ ~CompileInto(<<>>, t.SkipLabelRegs).err
    /\ t.skipBrancheRegs = CompileInto(<<>>, t.SkipBrancheRegs).regs
    /\ t.skipLabelRegs = CompileInto(<<>>, t.SkipLabelRegs).regs

\* C5: when a pattern of the document just read does not compile,
\* TaskAgent.Reload returns an error and the tree stored before stays; no
\* reader is returned a task of that document or a task whose compiled lists
\* are incomplete.
C5_BadPatternRejectsReload ==
    /\ (wpc = "tick" /\ HasInvalidPattern(parsed)) => (rlErr = "compile" /\ config = saved)
    /\ wpc \in {"tick", "read"} => config = expected
    /\ \A i \in Readers : rpc[i] = "done" =>
          \A n \in DOMAIN rres[i] :
              /\ FullyCompiled(rres[i][n])
              /\ \A kn \in TasksOf(UnmarshalTasksConfig(TaDocBad)) :
                     rres[i][n].UserPrompt #
                         UnmarshalTasksConfig(TaDocBad)[kn[1]][kn[2]].UserPrompt

\* The tasks of a task set as the document gives them, without what
\* initRegexps has added.
AsLoaded(ts) ==
    [n \in DOMAIN ts |-> [ts[n] EXCEPT !.skipBrancheRegs = <<>>, !.skipLabelRegs = <<>>]]

\* C6: what a TasksFor call returned holds the tasks TasksFor gives on one of
\* the trees the agent held during the call, and each of its tasks has its
\* compiled lists complete.
C6_ReadersSeeOneSnapshot ==
    \A i \in Readers : rpc[i] = "done" =>
        /\ \E snap \in rseen[i] :
              AsLoaded(rres[i]) = AsLoaded(TaskAgentTasksFor(snap, Org, Repo))
        /\ \A n \in DOMAIN rres[i] : FullyCompiled(rres[i][n])

----------------------------------------------------------------------------
\* Claims about the lookup of the task set.

\* C11: what a TasksFor call returned is, on one of the trees the agent held
\* during the call, the task set under "org/repo" when the tree has that key,
\* and else the task set under the organization when the tree has that key.
C11_FallsBackToOrganization ==
    \A i \in Readers : rpc[i] = "done" =>
        \E snap \in rseen[i] :
            /\ FullName(Org, Repo) \in DOMAIN snap => rres[i] = snap[FullName(Org, Repo)]
            /\ (FullName(Org, Repo) \notin DOMAIN snap /\ BareName(Org) \in DOMAIN snap)
                  => rres[i] = snap[BareName(Org)]

\* C12: a lifecycle dispatch under a tree that has neither the key "org/repo"
\* nor the key of the organization selects no task and calls the completion
\* backend for none.
C12_UnknownRepoSelectsNothing ==
    ( /\ Lifecycle
      /\ Selected
      /\ FullName(Org, Repo) \notin DOMAIN config
      /\ BareName(Org) \notin DOMAIN config )
    => (DOMAIN tasks = {} /\ completionCalls = <<>>)

\* C13: a dispatch that selected no task has made no fetch, no completion
\* call and no comment.
C13_EmptySelectionFetchesNothing ==
    (Selected /\ DOMAIN tasks = {}) =>
        (fetchCalls = 0 /\ completionCalls = <<>> /\ commentCalls = <<>>)

----------------------------------------------------------------------------
\* Claims about the comment command.

\* The text the first command line of the comment captured.
Captured == FindAllStringSubmatch(ev.body)[1][2]

\* A single task named "user-comment-trigger" with the built-in system
\* message and introduction and the given prompt.
AdHocTasks(prompt) ==
    Single("user-comment-trigger",
           [Name |-> "", SystemMessage |-> defaultSystemMessage, UserPrompt |-> prompt,
            PatchIntroducePrompt |-> defaultPrPatchIntroducePromte,
            OutputStaticHeadNote |-> ""])

\* The completion calls are those of the tasks ts, one each at most, with the
\* system message of the task and the message composed from it.
SentOnlyFrom(ts) ==
    /\ \A i \in DOMAIN completionCalls :
          /\ completionCalls[i].task \in DOMAIN ts
          /\ completionCalls[i].messages[1].content = ts[completionCalls[i].task].SystemMessage
          /\ completionCalls[i].messages[2].content = Message(ts[completionCalls[i].task], diff)
    /\ \A n \in DOMAIN ts : Cardinality(CompletionsOf(n)) <= 1

\* C14, as stated: the dispatch of a comment command selects a single ad-hoc
\* task whose prompt is the captured text, whatever the configuration.
C14_AdHocPromptIsCapturedText ==
    (viaComment /\ Selected) =>
        (tasks = AdHocTasks(Captured) /\ SentOnlyFrom(AdHocTasks(Captured)))

\* C14, amended: the dispatch of a comment command selects a single ad-hoc
\* task whose prompt is the captured text, or the built-in prompt when the
\* captured text is the reserved word, and sends only its message, whatever
\* the configuration.
C14_AdHocTaskIgnoresConfig ==
    (viaComment /\ Selected) =>
        LET prompt == IF Captured = defaultIssueReviewWorld THEN defaultPromte
                      ELSE Captured
        IN  tasks = AdHocTasks(prompt) /\ SentOnlyFrom(AdHocTasks(prompt))

\* A command with a free text was dispatched to its end under a
\* configuration that holds two tasks for the repository.
C14_Witness ==
    /\ viaComment
    /\ Selected
    /\ Captured = "q1"
    /\ pc = "done"
    /\ Len(completionCalls) = 1
    /\ FullName(Org, Repo) \in DOMAIN config
    /\ Cardinality(DOMAIN config[FullName(Org, Repo)]) = 2

\* C15: when the captured text is the reserved word, every completion call
\* is for the ad-hoc task, with the built-in system message and the built-in
\* prompt as the first line of the message; the reserved word is not sent.
C15_ReservedWordRunsBuiltInTask ==
    (viaComment /\ Selected /\ Captured = defaultIssueReviewWorld) =>
        /\ tasks = AdHocTasks(defaultPromte)
        /\ \A i \in DOMAIN completionCalls :
              /\ completionCalls[i].task = "user-comment-trigger"
              /\ completionCalls[i].messages[1].content = defaultSystemMessage
              /\ completionCalls[i].messages[2].content[1] = defaultPromte
              /\ completionCalls[i].messages[2].content[1] # defaultIssueReviewWorld

C15_Witness ==
    /\ viaComment
    /\ Captured = defaultIssueReviewWorld
    /\ Len(completionCalls) = 1
    /\ completionCalls[1].messages[2].content[1] = defaultPromte
    /\ FullName(Org, Repo) \in DOMAIN config
    /\ config[FullName(Org, Repo)] # Empty

----------------------------------------------------------------------------
\* Claims about failures and stops.

\* C16: a dispatch that ended on an error of the artifact retrieval has
\* posted a comment.
C16_FetchFailurePostsComment ==
    (pc = "failed" /\ err = "GetPullRequestDiff") => commentCalls # <<>>

\* C17: the comment posted for a task whose completion call failed or was
\* answered without choices is the failure notice.
C17_NoChoicesPostsFailureNotice ==
    \A i \in DOMAIN commentCalls, j \in DOMAIN completionCalls :
        ( /\ commentCalls[i].task = completionCalls[j].task
          /\ (~completionCalls[j].answer.ok \/ completionCalls[j].answer.choices = <<>>) )
        => commentCalls[i].body = CommentBody(viaComment, <<SendFailedNotice>>)

\* The delivery is a pull request event past the checks of action and draft
\* whose pull request is known not to be mergable.
LifecycleNotMergable ==
    /\ Lifecycle
    /\ ev.parses
    /\ ev.action \in {"opened", "synchronize", "reopened"}
    /\ ~ev.draft
    /\ ev.mergable = "false"

\* C19: a dispatch that ended because the artifact is oversized or because
\* the pull request is not mergable has posted exactly one comment, the
\* notice of that stop, for pull request events and for comment commands.
C19_EveryStopIsExplained ==
    /\ (pc \in Terminal /\ Oversized) =>
          (Len(commentCalls) = 1 /\ NoticeCalls(SkipTooLargeNotice) = {1})
    /\ (pc \in Terminal /\ resp = <<SkipNotMergableNotice>>) =>
          (Len(commentCalls) = 1 /\ NoticeCalls(SkipNotMergableNotice) = {1})
    /\ (pc \in Terminal /\ LifecycleNotMergable) =>
          (Len(commentCalls) = 1 /\ NoticeCalls(SkipNotMergableNotice) = {1})

\* C20: a pull request event for which a fetch, a completion call or a
\* comment was made has one of the three actions and is no draft; for every
\* other pull request event, and for one that does not parse, none is made.
C20_OnlyActionablePullRequestsDispatch ==
    Lifecycle =>
        LET outbound == \/ fetchCalls > 0
                        \/ completionCalls # <<>>
                        \/ commentCalls # <<>>
                        \/ pc \in {"fetch", "getpr", "tasks", "send", "publish"}
        IN  /\ outbound =>
                /\ ev.parses
                /\ ev.action \in {"opened", "synchronize", "reopened"}
                /\ ~ev.draft
            /\ ~ev.parses => pc \in {"received", "parseError"}
            /\ (ev.parses /\ (ev.action = "closed" \/ ev.draft)) =>
                  pc \in {"received", "started", "ignored"}

\* A draft pull request that was opened, and could be merged, was handled.
C20_Witness ==
    /\ Lifecycle
    /\ ev.parses
    /\ ev.draft
    /\ ev.action = "opened"
    /\ ev.mergable = "true"
    /\ pc = "ignored"

\* The pull request of the deliveries, as shouldRunTaskForPR reads it.
DeliveredPr == [login |-> PrAuthor, base |-> PrBase, labels |-> PrLabels]

\* The task n of the task file, under the selected key, is always run and one
\* of its skip rules matches the pull request.
Suppressed(n) ==
    LET t == initRegexps(UnmarshalTask(file.doc[SelectedKey][n])).task
    IN  t.AlwaysRun /\ ~shouldRunTaskForPR(t, DeliveredPr)

\* C18: for a pull request event, a task that a skip rule suppresses gets no
\* completion call and no comment.
C18_SuppressedTaskIsNotRun ==
    (Lifecycle /\ SelectedKey # <<>>) =>
        \A n \in DOMAIN file.doc[SelectedKey] :
            Suppressed(n) => (CompletionsOf(n) = {} /\ CommentsOf(n) = {})

----------------------------------------------------------------------------
\* Claims about the deliveries.

\* C21: an issue comment event for which any outbound call was made is a new
\* comment of a pull request with a command line; for a comment without a
\* command line no comment is posted.
C21_OnlyCommandsDispatch ==
    ev.type = "issue_comment" =>
        LET outbound == \/ pc \notin {"received", "started", "ignored", "parseError"}
                        \/ fetchCalls > 0
                        \/ completionCalls # <<>>
                        \/ commentCalls # <<>>
        IN  /\ outbound =>
                /\ ev.parses
                /\ ev.action = "created"
                /\ ev.isPullRequest
                /\ \E i \in DOMAIN ev.body : ev.body[i].cmd
            /\ (ev.parses /\ \A i \in DOMAIN ev.body : ~ev.body[i].cmd) =>
                  (~outbound /\ commentCalls = <<>>)

\* A new comment of a pull request without a command line was handled.
C21_Witness ==
    /\ ev.type = "issue_comment"
    /\ ev.parses
    /\ ev.action = "created"
    /\ ev.isPullRequest
    /\ ev.body = <<Plain>>
    /\ pc = "ignored"

\* The repository and the pull request number the delivery names.
Originating ==
    IF ev.type = "pull_request"
    THEN [org |-> ev.base.owner, repo |-> ev.base.name, num |-> ev.number]
    ELSE [org |-> ev.repo.owner, repo |-> ev.repo.name, num |-> ev.number]

\* C22: every createComment call, from whichever of its three callers, is for
\* the repository and the pull request number the delivery names; its body is
\* a quoted reply to the triggering comment exactly when the delivery is an
\* issue comment, and the text as it is exactly when the delivery is a pull
\* request event.
C22_CommentsGoToThePullRequest ==
    \A i \in DOMAIN commentCalls :
        /\ commentCalls[i].num = Originating.num
        /\ commentCalls[i].org = Originating.org
        /\ commentCalls[i].repo = Originating.repo
        /\ commentCalls[i].body.reply <=> ev.type = "issue_comment"
        /\ ~commentCalls[i].body.reply <=> ev.type = "pull_request"
        /\ commentCalls[i].body.reply => commentCalls[i].body.text[1] = ""
        /\ commentCalls[i].body.text # <<>>

\* A command was answered with the text of the completion, as a reply.
C22_Witness ==
    /\ ev.type = "issue_comment"
    /\ pc = "done"
    /\ ev.number = 8
    /\ Len(commentCalls) = 1
    /\ commentCalls[1].num = 8
    /\ commentCalls[1].body = [reply |-> TRUE, text |-> <<"", "r1">>]

----------------------------------------------------------------------------
\* splitUserMessage. A string is the sequence of its tokens: a byte of the
\* message, or the text a fmt.Sprintf builds around a part flag.

MaxMessageLen == 5
MaxSplitLen == 3
MaxDeliveries == 2
MaxCommits == 3

Byte(c) == [kind |-> "byte", c |-> c, i |-> 0, n |-> 0]
NewLine == Byte("\n")
\* The sentences and markers of a part, with the part flag "PART i/n".
WaitLine(i, n) == [kind |-> "wait", c |-> "", i |-> i, n |-> n]
StartLine(i, n) == [kind |-> "start", c |-> "", i |-> i, n |-> n]
EndLine(i, n) == [kind |-> "end", c |-> "", i |-> i, n |-> n]
AllSentLine == [kind |-> "allsent", c |-> "", i |-> 0, n |-> 0]

\* The messages and the values of maxTokens[model] - splitorHoldingByteCount
\* the function is called with.
Messages == UNION { [1..k -> {Byte("a"), NewLine}] : k \in 0..MaxMessageLen }
SplitLens == (-1)..MaxSplitLen

\* strings.Join(lines, "\n")
Join(lines) ==
    LET J[k \in 0..Len(lines)] ==
            IF k = 0 THEN <<>>
            ELSE IF k = 1 THEN lines[1]
            ELSE J[k - 1] \o <<NewLine>> \o lines[k]
    IN  J[Len(lines)]

PartCountRoundsDown(len, splitLen) == len \div splitLen

\* partCount: len / splitLen, plus one when that leaves a rest.
PartCount(len, splitLen) ==
    IF (len \div splitLen) * splitLen < len THEN (len \div splitLen) + 1
    ELSE len \div splitLen

PartFlagFromZero(i, partCount) == [i |-> i, n |-> partCount]

\* partFlag of the turn i of the loop: "PART i+1/partCount".
PartFlag(i, partCount) == [i |-> i + 1, n |-> partCount]

\* One turn of the loop of splitUserMessage: the chunk of index i (from 0).
Chunk(messageText, splitLen, i, partCount) ==
    LET isLast == i = partCount - 1
        partFlag == PartFlag(i, partCount)
        startPos == splitLen * i
        endPos == IF isLast THEN Len(messageText) ELSE startPos + splitLen
    IN  Join( (IF ~isLast THEN << <<WaitLine(partFlag.i, partFlag.n)>> >> ELSE <<>>)
              \o << <<StartLine(partFlag.i, partFlag.n)>>,
                    SubSeq(messageText, startPos + 1, endPos),
                    <<EndLine(partFlag.i, partFlag.n)>> >>
              \o (IF isLast THEN << <<AllSentLine>> >> ELSE <<>>) )

FitsStrictly(len, splitLen) == len < splitLen

\* len(messageText) <= splitLen
Fits(len, splitLen) == len <= splitLen

\* splitUserMessage: nil for a negative splitLen, the message alone when it
\* fits, a division by zero for a message that does not fit in zero bytes,
\* else the chunks.
splitUserMessage(messageText, splitLen) ==
    IF splitLen < 0 THEN [panics |-> FALSE, chunks |-> <<>>]
    ELSE IF Fits(Len(messageText), splitLen)
    THEN [panics |-> FALSE, chunks |-> <<messageText>>]
    ELSE IF splitLen = 0 THEN [panics |-> TRUE, chunks |-> <<>>]
    ELSE LET partCount == PartCount(Len(messageText), splitLen)
         IN  [panics |-> FALSE,
              chunks |-> [k \in 1..partCount |->
                             Chunk(messageText, splitLen, k - 1, partCount)]]

SplitInit ==
    /\ spText \in Messages
    /\ spLen \in SplitLens
    /\ spOut = <<>>
    /\ spPc = "called"
    /\ RedeliveryIdle
    /\ ServeIdle
    /\ CoIdle
    /\ DispatchIdle
    /\ AgentIdle
    /\ config = Empty
    /\ SkipIdle

SplitUserMessage ==
    /\ spPc = "called"
    /\ LET r == splitUserMessage(spText, spLen)
       IN  /\ spOut' = r.chunks
           /\ spPc' = IF r.panics THEN "panicked" ELSE "returned"
    /\ UNCHANGED <<spText, spLen, redeliveryVars, serveVars, coVars, dispatchVars,
                   agentVars, skipVars>>

SplitNext == SplitUserMessage

SpecSplit == SplitInit /\ [][SplitNext]_vars

\* C23: for a message no longer than a budget that is not negative, the call
\* returns one chunk, the message itself.
C23_FittingMessageIsReturnedAlone ==
    (spPc # "called" /\ spLen >= 0 /\ Len(spText) <= spLen) =>
        (spPc = "returned" /\ spOut = <<spText>>)

\* A message exactly as long as the budget was returned.
C23_Witness ==
    /\ spPc = "returned"
    /\ spLen = MaxSplitLen
    /\ Len(spText) = spLen
    /\ spOut = <<spText>>

\* The bytes of the message a chunk carries: what stands between the line of
\* its start marker and the line of its end marker.
CarriedBody(chunk) ==
    LET s == CHOOSE k \in DOMAIN chunk : chunk[k].kind = "start"
        e == CHOOSE k \in DOMAIN chunk : chunk[k].kind = "end"
    IN  SubSeq(chunk, s + 2, e - 2)

Concat(seqs) ==
    LET C[k \in 0..Len(seqs)] == IF k = 0 THEN <<>> ELSE C[k - 1] \o seqs[k]
    IN  C[Len(seqs)]

\* C24: for a message longer than a positive budget the call returns as many
\* chunks as budgets are needed to hold the message; each but the last
\* carries a budget of bytes, the last from one byte to a budget, and the
\* carried bytes, in the order of the chunks, are the message.
C24_ChunksPartitionTheMessage ==
    (spPc # "called" /\ spLen > 0 /\ Len(spText) > spLen) =>
        /\ spPc = "returned"
        /\ (Len(spOut) - 1) * spLen < Len(spText)
        /\ Len(spText) <= Len(spOut) * spLen
        /\ \A k \in DOMAIN spOut :
              /\ Cardinality({ j \in DOMAIN spOut[k] : spOut[k][j].kind = "start" }) = 1
              /\ Cardinality({ j \in DOMAIN spOut[k] : spOut[k][j].kind = "end" }) = 1
              /\ k < Len(spOut) => Len(CarriedBody(spOut[k])) = spLen
              /\ k = Len(spOut) => Len(CarriedBody(spOut[k])) \in 1..spLen
        /\ Concat([k \in DOMAIN spOut |-> CarriedBody(spOut[k])]) = spText

\* A message was split into three chunks, the last shorter than the budget.
C24_Witness ==
    /\ spPc = "returned"
    /\ spLen = 2
    /\ Len(spText) = 5
    /\ Len(spOut) = 3
    /\ CarriedBody(spOut[3]) = SubSeq(spText, 5, 5)

\* C25: of more than one chunk, the chunk of number i begins, when it is not
\* the last, with the wait sentence for part i and then the start marker of
\* part i, and ends with the end marker of part i; the last begins with its
\* start marker and ends with its end marker and the all-sent sentence. The
\* wait sentence is in no last chunk and the all-sent sentence in no other.
C25_PartsAreNumberedAndInstructed ==
    (spPc = "returned" /\ Len(spOut) > 1) =>
        LET N == Len(spOut)
        IN  \A i \in 1..N :
                LET chunk == spOut[i]
                    kinds == { chunk[j].kind : j \in DOMAIN chunk }
                IN  IF i < N
                    THEN /\ chunk[1] = WaitLine(i, N)
                         /\ chunk[2] = NewLine
                         /\ chunk[3] = StartLine(i, N)
                         /\ chunk[Len(chunk)] = EndLine(i, N)
                         /\ "allsent" \notin kinds
                    ELSE /\ chunk[1] = StartLine(N, N)
                         /\ chunk[Len(chunk) - 2] = EndLine(N, N)
                         /\ chunk[Len(chunk) - 1] = NewLine
                         /\ chunk[Len(chunk)] = AllSentLine
                         /\ "wait" \notin kinds

\* A message was split into two chunks.
C25_Witness ==
    /\ spPc = "returned"
    /\ Len(spOut) = 2
    /\ spOut[1][1] = WaitLine(1, 2)
    /\ spOut[2][Len(spOut[2])] = AllSentLine

----------------------------------------------------------------------------
\* The same delivery dispatched twice under one tree of the agent.

\* The tasks of the createComment calls of the dispatch, in call order.
CommentOrder == [i \in DOMAIN commentCalls |-> commentCalls[i].task]

\* The delivery is sent again after its dispatch commented on every one of
\* several tasks: ServeHTTP starts a fresh dispatch of it, and the agent
\* holds the tree it held before.
Redeliver ==
    /\ pc = "done"
    /\ Lifecycle
    /\ prevOrder = <<>>
    /\ Len(commentCalls) > 1
    /\ prevOrder' = CommentOrder
    /\ pc' = "received"
    /\ err' = ""
    /\ pr' = NoPullRequest
    /\ foreword' = ""
    /\ viaComment' = FALSE
    /\ lastResp' = NoResp
    /\ fetchCalls' = 0
    /\ diff' = NoResp
    /\ tasks' = Empty
    /\ todo' = {}
    /\ cur' = ""
    /\ resp' = <<>>
    /\ after' = ""
    /\ completionCalls' = <<>>
    /\ commentCalls' = <<>>
    /\ UNCHANGED <<ev, agentVars, skipVars, splitVars, serveVars, coVars>>

RedeliveryNext ==
    \/ handleEvent
    \/ handlePullRequest
    \/ handleIssueComment
    \/ GetPullRequest
    \/ GetPullRequestDiff
    \/ GetTasks
    \/ SendMessage
    \/ CreateComment
    \/ Redeliver

SpecRedelivery == Init /\ [][RedeliveryNext]_vars

\* C26: two dispatches of one lifecycle event under one tree of the agent,
\* each of which ran every selected task, post their per-task comments in
\* the same order.
C26_RedeliveryCommentsInSameOrder ==
    (prevOrder # <<>> /\ pc = "done") => CommentOrder = prevOrder

----------------------------------------------------------------------------
\* Deliveries that start no dispatch.

\* No goroutine ran and no upstream was called.
NothingStarted ==
    /\ pc \notin {"started", "fetch", "tasks", "send", "publish", "done", "skipped",
                  "failed", "panicked"}
    /\ fetchCalls = 0
    /\ lastResp = NoResp
    /\ completionCalls = <<>>
    /\ commentCalls = <<>>

\* C28: once handleEvent has returned, a delivery of type issue_comment or
\* pull_request whose payload does not parse has got an error and one of any
\* other type has got none, and for both nothing was started: no handler, no
\* source-control call, no completion call, no comment.
C28_UnparsedAndOtherDeliveriesStartNothing ==
    LET handled == ev.type \in {"issue_comment", "pull_request"}
    IN  /\ (pc # "received" /\ handled /\ ~ev.parses) =>
               (pc = "parseError" /\ err # "" /\ NothingStarted)
        /\ (pc # "received" /\ ~handled) =>
               (pc = "ignored" /\ err = "" /\ NothingStarted)

\* handleEvent has returned the error of an issue_comment payload.
C28_Witness ==
    /\ ev.type = "issue_comment"
    /\ ~ev.parses
    /\ pc = "parseError"
    /\ err = "unmarshal"

----------------------------------------------------------------------------
\* Several deliveries on one connection. The HTTP server calls ServeHTTP for
\* the requests of a connection one after the other; every goroutine
\* handleEvent starts runs beside them.

Deliveries == 1..MaxDeliveries

ServedEvents ==
    { [type |-> "pull_request", parses |-> TRUE, action |-> "opened",
       draft |-> FALSE, mergable |-> "nil"],
      [type |-> "pull_request", parses |-> TRUE, action |-> "closed",
       draft |-> FALSE, mergable |-> "nil"],
      [type |-> "pull_request", parses |-> FALSE],
      [type |-> "push", parses |-> TRUE] }

\* The answers of ghc.GetPullRequestDiff to the calls made for one delivery:
\* the first call gets the first, and the last is repeated for ever.
ServeAnswers ==
    { FetchError, JsonPayload, EmptyPayload, Payload("d", 1),
      Payload("d", openaiMessageMaxLen + 1) }
UpstreamAnswers ==
    { <<a>> : a \in ServeAnswers }
    \cup { <<JsonPayload, a>> : a \in ServeAnswers \ {JsonPayload} }

\* The document the agent has loaded while the deliveries are served.
ServeDoc ==
    Single(FullName(Org, Repo),
           [n \in {"t1", "t2"} |-> DocTask("p", TRUE, "")])

\* The goroutine has returned.
JobTerminal == {"ignored", "done", "failed"}

\* The run-time panic of a goroutine without recover ends the process.
Crashed == \E d \in Deliveries : jobPc[d] = "panicked"

ServeReturnsAfterHandler(j) == j \in {"none"} \cup JobTerminal

\* handleEvent starts the handler with a go statement and returns: ServeHTTP
\* returns wherever the handler is.
ServeReturnsAt(j) == TRUE

ServeInit ==
    /\ delivered \in [Deliveries -> ServedEvents]
    /\ accepted \in [Deliveries -> BOOLEAN]
    /\ upstream \in [Deliveries -> UpstreamAnswers]
    /\ srvPc = [d \in Deliveries |-> "queued"]
    /\ acked = [d \in Deliveries |-> FALSE]
    /\ jobPc = [d \in Deliveries |-> "none"]
    /\ jobTodo = [d \in Deliveries |-> {}]
    /\ RedeliveryIdle
    /\ CoIdle
    /\ spText = <<>>
    /\ spLen = 0
    /\ spOut = <<>>
    /\ spPc = "idle"
    /\ DispatchIdle
    /\ AgentIdle
    /\ config = UnmarshalConfig(ServeDoc)
    /\ SkipIdle

\* What no step of a delivery changes.
ServeUnchanged ==
    UNCHANGED <<delivered, accepted, dispatchVars, file, modTime, config, lastMod,
                wpc, parsed, saved, cpTodo, cpErr, rlErr, expected, rpc, rres,
                rseen, watchVars, skipVars, splitVars, redeliveryVars, coVars>>

\* ServeHTTP is called once the calls for the earlier requests of the
\* connection have returned; github.ValidateWebhook.
ServeValidate(d) ==
    /\ ~Crashed
    /\ srvPc[d] = "queued"
    /\ \A c \in Deliveries : c < d => srvPc[c] = "returned"
    /\ srvPc' = [srvPc EXCEPT ![d] = IF accepted[d] THEN "ack" ELSE "returned"]
    /\ UNCHANGED <<acked, jobPc, jobTodo, upstream, mu>>
    /\ ServeUnchanged

\* fmt.Fprint(w, "Event received. Have a nice day.")
ServeAck(d) ==
    /\ ~Crashed
    /\ srvPc[d] = "ack"
    /\ acked' = [acked EXCEPT ![d] = TRUE]
    /\ srvPc' = [srvPc EXCEPT ![d] = "handleEvent"]
    /\ UNCHANGED <<jobPc, jobTodo, upstream, mu>>
    /\ ServeUnchanged

\* s.handleEvent: the go statement for a payload that parses.
ServeHandleEvent(d) ==
    /\ ~Crashed
    /\ srvPc[d] = "handleEvent"
    /\ jobPc' = [jobPc EXCEPT ![d] =
                    IF handleEventOutcome(delivered[d]) = "started"
                    THEN "started" ELSE "none"]
    /\ srvPc' = [srvPc EXCEPT ![d] = "returning"]
    /\ UNCHANGED <<acked, jobTodo, upstream, mu>>
    /\ ServeUnchanged

\* handleEvent has returned; ServeHTTP logs its error and returns.
ServeReturn(d) ==
    /\ ~Crashed
    /\ srvPc[d] = "returning"
    /\ ServeReturnsAt(jobPc[d])
    /\ srvPc' = [srvPc EXCEPT ![d] = "returned"]
    /\ UNCHANGED <<acked, jobPc, jobTodo, upstream, mu>>
    /\ ServeUnchanged

\* The goroutine: handlePullRequest up to the call of handle.
JobHandler(d) ==
    /\ ~Crashed
    /\ jobPc[d] = "started"
    /\ jobPc' = [jobPc EXCEPT ![d] =
                    IF ReturnsEarly(delivered[d]) THEN "ignored" ELSE "fetch"]
    /\ UNCHANGED <<srvPc, acked, jobTodo, upstream, mu>>
    /\ ServeUnchanged

\* One ghc.GetPullRequestDiff call of getPullRequestDiff. An error ends the
\* goroutine, a payload of length zero faults at diff[0], a payload that
\* begins with a brace sends the goroutine to time.Sleep, and any other is
\* returned to handle, which checks its length.
JobFetch(d) ==
    /\ ~Crashed
    /\ jobPc[d] = "fetch"
    /\ LET r == Head(upstream[d])
           o == FetchOutcome(r)
       IN  /\ upstream' = [upstream EXCEPT ![d] = IF Len(@) > 1 THEN Tail(@) ELSE @]
           /\ jobPc' = [jobPc EXCEPT ![d] =
                           IF o = "error" THEN "failed"
                           ELSE IF o = "panic" THEN "panicked"
                           ELSE IF o = "retry" THEN "sleep"
                           ELSE IF TooLarge(r) THEN "notice"
                           ELSE "rlock"]
    /\ UNCHANGED <<srvPc, acked, jobTodo, mu>>
    /\ ServeUnchanged

\* time.Sleep(time.Second * 5) returns.
JobWake(d) ==
    /\ ~Crashed
    /\ jobPc[d] = "sleep"
    /\ jobPc' = [jobPc EXCEPT ![d] = "fetch"]
    /\ UNCHANGED <<srvPc, acked, jobTodo, upstream, mu>>
    /\ ServeUnchanged

\* createComment with the notice of a diff that is too large; handle returns
\* what it returns.
JobNotice(d) ==
    /\ ~Crashed
    /\ jobPc[d] = "notice"
    /\ \E ok \in BOOLEAN :
          jobPc' = [jobPc EXCEPT ![d] = IF ok THEN "done" ELSE "failed"]
    /\ UNCHANGED <<srvPc, acked, jobTodo, upstream, mu>>
    /\ ServeUnchanged

\* getTasks: c.mu.RLock() of ConfigAgent.TasksFor.
JobRLock(d) ==
    /\ ~Crashed
    /\ jobPc[d] = "rlock"
    /\ CanRLock(mu)
    /\ mu' = [mu EXCEPT !.r = @ + 1]
    /\ jobPc' = [jobPc EXCEPT ![d] = "lookup"]
    /\ UNCHANGED <<srvPc, acked, jobTodo, upstream>>
    /\ ServeUnchanged

\* The lookup of ConfigAgent.TasksFor, its deferred RUnlock, and handle up
\* to the first turn of its range loop.
JobTasksFor(d) ==
    /\ ~Crashed
    /\ jobPc[d] = "lookup"
    /\ mu' = [mu EXCEPT !.r = RUnlock(@)]
    /\ LET ts == getTasks(config, Org, Repo, "")
       IN  /\ jobTodo' = [jobTodo EXCEPT ![d] = DOMAIN ts]
           /\ jobPc' = [jobPc EXCEPT ![d] = IF DOMAIN ts = {} THEN "done" ELSE "send"]
    /\ UNCHANGED <<srvPc, acked, upstream>>
    /\ ServeUnchanged

\* taskRun of the next task (in no fixed order), up to the return of
\* CreateChatCompletion.
JobSend(d) ==
    /\ ~Crashed
    /\ jobPc[d] = "send"
    /\ \E n \in jobTodo[d] : jobTodo' = [jobTodo EXCEPT ![d] = @ \ {n}]
    /\ jobPc' = [jobPc EXCEPT ![d] = AfterCompletion]
    /\ UNCHANGED <<srvPc, acked, upstream, mu>>
    /\ ServeUnchanged

\* createComment of the task; its error ends handle, else the range loop
\* goes on.
JobPublish(d) ==
    /\ ~Crashed
    /\ jobPc[d] = "publish"
    /\ \E ok \in BOOLEAN :
          jobPc' = [jobPc EXCEPT ![d] =
                       IF ~LoopGoesOn(ok) THEN "failed"
                       ELSE IF jobTodo[d] = {} THEN "done" ELSE "send"]
    /\ UNCHANGED <<srvPc, acked, jobTodo, upstream, mu>>
    /\ ServeUnchanged

ServeStep(d) ==
    \/ ServeValidate(d)
    \/ ServeAck(d)
    \/ ServeHandleEvent(d)
    \/ ServeReturn(d)

JobStep(d) ==
    \/ JobHandler(d)
    \/ JobFetch(d)
    \/ JobWake(d)
    \/ JobNotice(d)
    \/ JobRLock(d)
    \/ JobTasksFor(d)
    \/ JobSend(d)
    \/ JobPublish(d)

ServeNext ==
    \E d \in Deliveries :
       \/ ServeValidate(d)
       \/ ServeAck(d)
       \/ ServeHandleEvent(d)
       \/ ServeReturn(d)
       \/ JobHandler(d)
       \/ JobFetch(d)
       \/ JobWake(d)
       \/ JobNotice(d)
       \/ JobRLock(d)
       \/ JobTasksFor(d)
       \/ JobSend(d)
       \/ JobPublish(d)

\* Every goroutine that can take a step is scheduled in the end.
SpecServe ==
    /\ ServeInit
    /\ [][ServeNext]_vars
    /\ \A d \in Deliveries : WF_vars(ServeStep(d)) /\ WF_vars(JobStep(d))

\* ServeHTTP has returned and the goroutine of the delivery, if one was
\* started, has ended.
Finished(d) == srvPc[d] = "returned" /\ jobPc[d] \in {"none"} \cup JobTerminal

\* The upstream never has the artifact of the delivery ready: every answer
\* from some call on begins with a brace.
NeverReady(d) ==
    LET a == upstream[d][Len(upstream[d])]
    IN  a.ok /\ BeginsWithBrace(a)

\* C27: a goroutine is started for a delivery only after its acknowledgement
\* was written, and, as long as the process runs, every delivery whose own
\* artifact the upstream has ready is handled to the end, whatever the
\* earlier deliveries of the connection are waiting for.
C27_DeliveriesDoNotWaitOnOneAnother ==
    /\ [](\A d \in Deliveries : jobPc[d] # "none" => acked[d])
    /\ \A d \in Deliveries : [](~NeverReady(d) => <>(Finished(d) \/ Crashed))

\* The second delivery was handled to the end of its tasks while the
\* goroutine of the first sleeps before its next fetch.
C27_Witness ==
    /\ NeverReady(1)
    /\ jobPc[1] = "sleep"
    /\ ~NeverReady(2)
    /\ jobPc[2] = "done"
    /\ jobTodo[2] = {}
    /\ mu.r = 0
    /\ srvPc[2] = "returned"

----------------------------------------------------------------------------
\* The request of a task.

\* C29: every completion request holds two messages. The first has the
\* system role and the task's systemMessage. The second has the user role
\* and thirteen lines: the task's userPrompt, the title section, the body
\* section, the task's patchIntroducePrompt and the artifact in a diff fence.
C29_MessageIsComposedInFixedOrder ==
    \A i \in DOMAIN completionCalls :
        LET c == completionCalls[i]
            t == tasks[c.task]
            u == c.messages[2].content
        IN  /\ Len(c.messages) = 2
            /\ c.messages[1] = [role |-> "system", content |-> t.SystemMessage]
            /\ c.messages[2].role = "user"
            /\ Len(u) = 13
            /\ u[1] = t.UserPrompt
            /\ <<u[2], u[3], u[4], u[5]>> =
                  <<"This is the pr title:", "[fence]text", PrTitle, "[fence]">>
            /\ <<u[6], u[7], u[8], u[9]>> =
                  <<"These are the pr description:", "[fence]text", PrBody, "[fence]">>
            /\ u[10] = t.PatchIntroducePrompt
            /\ <<u[11], u[12], u[13]>> = <<"[fence]diff", diff, "[fence]">>

\* A request was made for a configured task with a prompt, a system message
\* and a label of its own.
C29_Witness ==
    \E i \in DOMAIN completionCalls :
        LET t == tasks[completionCalls[i].task]
        IN  /\ t.UserPrompt = "p2"
            /\ t.SystemMessage = "sys"
            /\ t.PatchIntroducePrompt = "intro"
            /\ completionCalls[i].messages[2].content[10] = "intro"

----------------------------------------------------------------------------
\* NormalizeCoAuthorBy. A string is the sequence of its characters; the Login
\* of a CommitAuthor, a *string, is a sequence that is empty (nil) or holds
\* the login.

Str(c) == <<c>>
AuthorNames == { Str("a"), <<"A", " ">> }
AuthorEmails == { <<>>, Str(" "), <<" ", "x">>, Str("Y") }
AuthorLogins == { <<>>, Str("login1"), Str("login2") }
CommitAuthors == [Name : AuthorNames, Email : AuthorEmails, Login : AuthorLogins]
CommitAuthorLists == UNION { [1..k -> CommitAuthors] : k \in 0..MaxCommits }
PrAuthorLogins == {"login1"}

\* strings.TrimSpace
RECURSIVE TrimLeft(_)
TrimLeft(str) ==
    IF str # <<>> /\ Head(str) = " " THEN TrimLeft(Tail(str)) ELSE str

RECURSIVE TrimRight(_)
TrimRight(str) ==
    IF str # <<>> /\ str[Len(str)] = " "
    THEN TrimRight(SubSeq(str, 1, Len(str) - 1))
    ELSE str

TrimSpace(str) == TrimRight(TrimLeft(str))

\* strings.ToLower
LowerChar(c) ==
    CASE c = "A" -> "a"
      [] c = "Y" -> "y"
      [] OTHER -> c

ToLower(str) == [i \in DOMAIN str |-> LowerChar(str[i])]

getAuthorKeyKeepsCase(name, email) == name \o Str("<") \o email \o Str(">")

\* strings.ToLower(fmt.Sprintf("%s<%s>", name, email))
getAuthorKey(name, email) == ToLower(name \o Str("<") \o email \o Str(">"))

\* The loop of NormalizeCoAuthorBy: R[i] is coAuthorSet and coAuthors after
\* the first i commit authors.
NormalizeCoAuthorBy(commitAuthors, prAuthorLogin) ==
    LET R[i \in 0..Len(commitAuthors)] ==
            IF i = 0 THEN [coAuthorSet |-> {}, coAuthors |-> <<>>]
            ELSE LET prev == R[i - 1]
                     author == commitAuthors[i]
                     name == TrimSpace(author.Name)
                     email == TrimSpace(author.Email)
                     key == getAuthorKey(name, email)
                 IN  IF Len(email) = 0 THEN prev
                     ELSE IF key \in prev.coAuthorSet THEN prev
                     ELSE IF author.Login = <<>> \/ author.Login[1] # prAuthorLogin
                     THEN [coAuthorSet |-> prev.coAuthorSet \cup {key},
                           coAuthors |-> Append(prev.coAuthors,
                                                [Name |-> name, Email |-> email])]
                     ELSE prev
    IN  R[Len(commitAuthors)].coAuthors

CoInit ==
    /\ coAuthors \in CommitAuthorLists
    /\ coLogin \in PrAuthorLogins
    /\ coOut = <<>>
    /\ coPc = "called"
    /\ RedeliveryIdle
    /\ ServeIdle
    /\ spText = <<>>
    /\ spLen = 0
    /\ spOut = <<>>
    /\ spPc = "idle"
    /\ DispatchIdle
    /\ AgentIdle
    /\ config = Empty
    /\ SkipIdle

CallNormalizeCoAuthorBy ==
    /\ coPc = "called"
    /\ coOut' = NormalizeCoAuthorBy(coAuthors, coLogin)
    /\ coPc' = "returned"
    /\ UNCHANGED <<coAuthors, coLogin, splitVars, redeliveryVars, serveVars,
                   dispatchVars, agentVars, skipVars>>

CoNext == CallNormalizeCoAuthorBy

SpecCoAuthor == CoInit /\ [][CoNext]_vars

\* The commit is not by the author of the pull request.
NotByPrAuthor(a) == a.Login = <<>> \/ a.Login # Str(coLogin)

\* The key of an entry, of a commit author as given, and of a commit author
\* with the white space around the name and the e-mail taken off.
LowerKey(name, email) == <<ToLower(name), ToLower(email)>>
RawKey(a) == LowerKey(a.Name, a.Email)
TrimmedKey(a) == LowerKey(TrimSpace(a.Name), TrimSpace(a.Email))
EntryKey(e) == LowerKey(e.Name, e.Email)

\* The commits that qualify, with the e-mail taken as given and trimmed.
RawQualifies(i) == coAuthors[i].Email # <<>> /\ NotByPrAuthor(coAuthors[i])
TrimmedQualifies(i) ==
    TrimSpace(coAuthors[i].Email) # <<>> /\ NotByPrAuthor(coAuthors[i])

\* The first qualifying commit whose trimmed key is that of entry k.
FirstOf(k) ==
    CHOOSE i \in DOMAIN coAuthors :
        /\ TrimmedQualifies(i)
        /\ TrimmedKey(coAuthors[i]) = EntryKey(coOut[k])
        /\ \A j \in 1..(i - 1) :
              ~(TrimmedQualifies(j) /\ TrimmedKey(coAuthors[j]) = EntryKey(coOut[k]))

\* C30, as stated: every commit with a non-empty e-mail that is not by the
\* author of the pull request has an entry with its lower-cased name and
\* e-mail, and the entries are pairwise distinct by that key.
C30_EveryNonEmptyEmailHasAnEntry ==
    coPc = "returned" =>
        /\ \A i \in DOMAIN coAuthors :
              RawQualifies(i) =>
                  \E k \in DOMAIN coOut : EntryKey(coOut[k]) = RawKey(coAuthors[i])
        /\ \A k, l \in DOMAIN coOut :
              EntryKey(coOut[k]) = EntryKey(coOut[l]) => k = l

\* C30, with name and e-mail trimmed first: the entries are the commits
\* whose trimmed e-mail is not empty and that are not by the author of the
\* pull request, one entry for each lower-cased trimmed name and e-mail, with
\* the trimmed name and e-mail of the first such commit, in the order of
\* these first commits.
C30_CoAuthorsAreTheDistinctOtherAuthors ==
    coPc = "returned" =>
        /\ \A i \in DOMAIN coAuthors :
              TrimmedQualifies(i) =>
                  \E k \in DOMAIN coOut : EntryKey(coOut[k]) = TrimmedKey(coAuthors[i])
        /\ \A k \in DOMAIN coOut :
              \E i \in DOMAIN coAuthors :
                  TrimmedQualifies(i) /\ TrimmedKey(coAuthors[i]) = EntryKey(coOut[k])
        /\ \A k, l \in DOMAIN coOut :
              EntryKey(coOut[k]) = EntryKey(coOut[l]) => k = l
        /\ \A k \in DOMAIN coOut :
              coOut[k] = [Name |-> TrimSpace(coAuthors[FirstOf(k)].Name),
                          Email |-> TrimSpace(coAuthors[FirstOf(k)].Email)]
        /\ \A k, l \in DOMAIN coOut : k < l => FirstOf(k) < FirstOf(l)

\* Three commits, the first by the author of the pull request, the others
\* by one other author whose name is written in two ways: one entry.
C30_Witness ==
    /\ coPc = "returned"
    /\ Len(coAuthors) = 3
    /\ coAuthors[1].Login = Str(coLogin)
    /\ TrimSpace(coAuthors[1].Email) # <<>>
    /\ TrimmedQualifies(2)
    /\ TrimmedQualifies(3)
    /\ coAuthors[2].Name # coAuthors[3].Name
    /\ TrimmedKey(coAuthors[2]) = TrimmedKey(coAuthors[3])
    /\ Len(coOut) = 1

----------------------------------------------------------------------------
\* Claims about the watch loop.

\* C31: the latest tick called the reload handler exactly when os.Stat
\* succeeded and the modification time it gave is later than every
\* modification time the earlier ticks observed (none at first).
C31_ReloadsExactlyWhenModTimeAdvances ==
    lastTick # NoTick =>
        (lastTick.called <=> (~lastTick.statErr /\ lastTick.mod > lastTick.seen))

\* A tick after the first one found the modification time as an earlier tick
\* had seen it and called nothing.
C31_Witness ==
    /\ ~lastTick.statErr
    /\ lastTick.mod = lastTick.seen
    /\ lastTick.mod > 0
    /\ ~lastTick.called
    /\ wpc = "tick"

\* C32: the watch loop is never ended; after a failed os.Stat or a handler
\* that returned an error it is at its next tick again, and the tree the
\* agent holds between two reloads is that of the latest load of a readable,
\* well-formed file, whatever failed before.
C32_WatchLoopSurvivesFailures ==
    /\ wpc # "stopped"
    /\ (rlErr # "" /\ wpc \notin {"read", "lock", "assign", "compile"}) => wpc = "tick"
    /\ (failed # {} /\ wpc \in {"tick", "read"}) => config = expected

\* After a tick whose os.Stat failed and a Reload that returned an error, a
\* later Reload has stored the tree of another document.
C32_Witness ==
    /\ failed = {"stat", "handler"}
    /\ wpc = "tick"
    /\ rlErr = ""
    /\ file = Written(DocOrg)
    /\ config = UnmarshalConfig(DocOrg)
    /\ lastMod = modTime

\* C38: lastMod is the latest modification time a tick has observed, from the
\* moment the handler is called and whatever it returned; the handler is
\* called only at a tick that finds a later time than lastMod; and while the
\* latest Reload has failed the agent holds the tree it held before it.
C38_FailedReloadIsNotRetried ==
    /\ [](lastMod = seenMod)
    /\ [][(wpc = "tick" /\ wpc' = "read") => modTime > lastMod]_vars
    /\ []((wpc = "tick" /\ rlErr # "") => config = saved)

\* After a Reload that failed on a malformed file, a tick has found the
\* modification time unchanged and called nothing; the older tree is held.
C38_Witness ==
    /\ wpc = "tick"
    /\ rlErr = "unmarshal"
    /\ file = Malformed
    /\ ~lastTick.statErr
    /\ ~lastTick.called
    /\ lastTick.mod = lastMod
    /\ lastMod = 2
    /\ config = saved

----------------------------------------------------------------------------
\* Claims about the lock of the agent. A caller of TasksFor is a dispatch:
\* before its call and after it (positions "idle" and "done") it is in its
\* network calls.

\* C33: mu is read-locked by exactly the dispatches that are inside TasksFor
\* and write-locked exactly while Reload assigns the tree it parsed; so
\* Reload gets the lock when every dispatch is in a network call, and a
\* dispatch gets it while Reload reads and parses the file.
C33_LockIsHeldOnlyAroundTheTree ==
    /\ mu.r = Cardinality({i \in Readers : rpc[i] \in InCall})
    /\ mu.w <=> wpc = "assign"
    /\ (wpc = "lock" /\ \A i \in Readers : rpc[i] \notin InCall) => CanLock(mu)
    /\ wpc = "read" => CanRLock(mu)

\* Reload holds the write lock for its assignment while one dispatch is past
\* its TasksFor call and the other has not made it yet.
C33_Witness ==
    /\ wpc = "assign"
    /\ mu.w
    /\ rpc["d1"] = "done"
    /\ rpc["d2"] = "idle"

----------------------------------------------------------------------------
\* Claims about the order of the calls of one dispatch.

\* The createComment calls of taskRun, in call order.
TaskComments == SelectSeq(commentCalls, LAMBDA c : c.task # "")

\* C34: the k-th completion call of a dispatch is followed by the
\* createComment call for its task before the next completion call is made:
\* at any time the comments of the tasks are those of the completion calls
\* made, in the same order, less the one of the latest call while taskRun is
\* still on its way to createComment.
C34_TasksRunOneAfterAnother ==
    LET n == Len(completionCalls)
        m == Len(TaskComments)
    IN  /\ m = IF pc = "publish" /\ after = "taskRun" THEN n - 1 ELSE n
        /\ \A k \in 1..m : TaskComments[k].task = completionCalls[k].task

\* The second task was sent to the completion backend after the comment of
\* the first was published, and its own comment is not yet made.
C34_Witness ==
    /\ Len(completionCalls) = 2
    /\ Len(TaskComments) = 1
    /\ TaskComments[1].task = completionCalls[1].task
    /\ TaskComments[1].ok
    /\ pc = "publish"

----------------------------------------------------------------------------
\* Claims about the compiled skip rules.

\* The compiled list holds, entry for entry, the compiled pattern strings.
CompiledFrom(regs, raw) ==
    /\ Len(regs) = Len(raw)
    /\ \A i \in DOMAIN raw : ~Compile(raw[i]).err /\ regs[i] = Compile(raw[i]).re

\* C35: whenever no Reload is under way, whatever the Reloads before have
\* returned, the two compiled lists of every task of the tree the agent
\* holds are, entry for entry and in order, the task's own branch patterns
\* and label patterns compiled.
C35_CompiledListsMatchThePatterns ==
    wpc = "tick" =>
        \A kn \in TasksOf(config) :
            LET t == config[kn[1]][kn[2]]
            IN  /\ CompiledFrom(t.skipBrancheRegs, t.SkipBrancheRegs)
                /\ CompiledFrom(t.skipLabelRegs, t.SkipLabelRegs)

----------------------------------------------------------------------------
\* Claims about the fetch of the diff on a payload of length zero.

\* C36: getPullRequestDiff never faults on a successful answer of the
\* upstream: whatever the payload, the length zero included, the dispatch is
\* either fetching again or past the fetch with that payload as its diff.
C36_FetchNeverFaultsOnSuccessfulAnswer ==
    (lastResp # NoResp /\ lastResp.ok) =>
        /\ pc # "panicked"
        /\ pc # "fetch" => diff = lastResp

----------------------------------------------------------------------------
\* Claims about the budgets splitUserMessage returns for.

\* C37: splitUserMessage returns for every message and every splitLen, the
\* splitLen zero with a message that is not empty included, and returns no
\* chunk for a negative splitLen.
C37_SplitUserMessageIsTotal ==
    spPc # "called" =>
        /\ spPc = "returned"
        /\ spLen < 0 => spOut = <<>>

----------------------------------------------------------------------------
\* Claims about the artifact of a dispatch.

\* The artifact line of the message of a completion call.
PatchOf(c) == c.messages[2].content[12]

\* C39: within one dispatch the artifact is fetched and checked against the
\* ceiling once, before the tasks are selected. While the dispatch fetches,
\* no artifact is held, no task is selected and nothing was sent; the
\* artifact held is the one answer of the upstream that succeeded without a
\* leading '{', and from then on no upstream call is made and the artifact
\* does not change; the message of every task carries that same artifact.
C39_ArtifactIsFetchedOnceBeforeSelection ==
    /\ [](pc = "fetch" => (diff = NoResp /\ tasks = Empty /\ completionCalls = <<>>))
    /\ [](HasDiff => (diff = lastResp /\ diff.ok /\ ~BeginsWithBrace(diff)))
    /\ [](\A i \in DOMAIN completionCalls :
             /\ Selected
             /\ PatchOf(completionCalls[i]) = diff
             /\ \A j \in DOMAIN completionCalls :
                    PatchOf(completionCalls[j]) = PatchOf(completionCalls[i]))
    /\ [][HasDiff => UNCHANGED <<diff, lastResp, fetchCalls>>]_vars
    /\ [][diff' # diff =>
            (diff = NoResp /\ pc = "fetch" /\ completionCalls = <<>>)]_vars

\* Two tasks of one event were sent, after an upstream call that was retried,
\* and both messages carry the artifact of the one answer that was taken.
C39_Witness ==
    /\ Len(completionCalls) = 2
    /\ completionCalls[1].task # completionCalls[2].task
    /\ fetchCalls = 2
    /\ diff = lastResp
    /\ PatchOf(completionCalls[1]) = diff
    /\ PatchOf(completionCalls[2]) = diff
====
